---- MODULE Spec2Model ----
(***************************************************************************)
(* Model of lqtImageViewer: the navigable graphics view (zoom, pan, reset, *)
(* resize, mouse gestures) of _view.py and the image viewport API          *)
(* (set/clear/rotate image) of _viewport.py.                               *)
(*                                                                         *)
(* Numbers.  A Python float / Qt qreal is modelled as a binary             *)
(* floating-point number whose significand has MantBits bits (53 in the    *)
(* program).  A value v is held as the integer v * 2^GridBits.  Every      *)
(* sum, product and quotient, in the Python source and in the QRectF and   *)
(* QPointF arithmetic it calls, is rounded to MantBits significant bits,   *)
(* round-half-to-even, as the processor rounds it.  Values below           *)
(* 2^(MantBits - 1 - GridBits) are rounded to the grid.  QGraphicsView is  *)
(* modelled by its documented contract: a scene rectangle that fits in the *)
(* viewport is shown centered in it.                                       *)
(***************************************************************************)
EXTENDS Integers, Sequences, FiniteSets, TLC

\* Width of the significand of a float in the model.
MantBits == 12
\* Number of handler invocations explored after construction.
MaxSteps == 4

\* All values are multiples of 2^-GridBits.
GridBits == MantBits + 6
Scale == 2 ^ GridBits

\* int -> float
F(n) == n * Scale

Abs(n) == IF n < 0 THEN -n ELSE n
Sign(n) == IF n < 0 THEN -1 ELSE 1

\* Number of bits of n >= 0
RECURSIVE BitLen(_)
BitLen(n) ==
    IF n >= 65536 THEN 16 + BitLen(n \div 65536)
    ELSE IF n >= 256 THEN 8 + BitLen(n \div 256)
    ELSE IF n >= 16 THEN 4 + BitLen(n \div 16)
    ELSE IF n >= 4 THEN 2 + BitLen(n \div 4)
    ELSE IF n >= 2 THEN 2
    ELSE n

\* n / d rounded to the nearest integer, ties to even (n >= 0, d > 0).
RoundHalfEven(n, d) ==
    LET q == n \div d
        r == n % d
    IN  IF 2 * r < d THEN q
        ELSE IF 2 * r > d THEN q + 1
        ELSE q + (q % 2)

\* m * 2^e (m >= 0) rounded to MantBits significant bits, as <<m', e'>>.
RoundSig(m, e) ==
    LET len == BitLen(m)
    IN  IF len <= MantBits THEN <<m, e>>
        ELSE <<RoundHalfEven(m, 2 ^ (len - MantBits)), e + (len - MantBits)>>

\* The grid integer of m * 2^e, e relative to the grid unit.
OnGrid(me) ==
    IF me[2] >= 0 THEN me[1] * 2 ^ me[2]
    ELSE RoundHalfEven(me[1], 2 ^ (-me[2]))

\* <<m, e>> with n = m * 2^e and m of at most MantBits bits, for a float
\* n >= 0.
Split(n) ==
    LET len == BitLen(n)
    IN  IF len <= MantBits THEN <<n, 0>>
        ELSE <<n \div (2 ^ (len - MantBits)), len - MantBits>>

\* float + float
FAdd(a, b) ==
    LET s == a + b
    IN  Sign(s) * OnGrid(RoundSig(Abs(s), 0))

FSub(a, b) == FAdd(a, -b)

\* float * float
FMul(a, b) ==
    LET oa == Split(Abs(a))
        ob == Split(Abs(b))
    IN  Sign(a) * Sign(b)
          * OnGrid(RoundSig(oa[1] * ob[1], oa[2] + ob[2] - GridBits))

\* float / float (b # 0): the quotient of the two significands is taken to
\* MantBits bits in one rounding.
FDiv(a, b) ==
    LET oa == Split(Abs(a))
        ob == Split(Abs(b))
        k0 == MantBits + BitLen(ob[1]) - BitLen(oa[1])
        Num(k) == IF k >= 0 THEN oa[1] * 2 ^ k ELSE oa[1]
        Den(k) == IF k >= 0 THEN ob[1] ELSE ob[1] * 2 ^ (-k)
        k == IF Num(k0) \div Den(k0) >= 2 ^ MantBits THEN k0 - 1 ELSE k0
    IN  IF a = 0 THEN 0
        ELSE Sign(a) * Sign(b)
               * OnGrid(<<RoundHalfEven(Num(k), Den(k)),
                          oa[2] - ob[2] - k + GridBits>>)

\* float / 2
Halve(a) == IF a % 2 = 0 THEN a \div 2 ELSE FDiv(a, F(2))

\* The unit in the last place of a float of the magnitude of a.
Ulp(a) ==
    IF BitLen(Abs(a)) > MantBits THEN 2 ^ (BitLen(Abs(a)) - MantBits) ELSE 1

One == F(1)
Half == Halve(F(1))
\* the literal 0.01 of mouseMoveEvent
Cent == FDiv(F(1), F(100))

\* Python's None
None == <<>>

\* What a method call gave back: a value, None, or an exception
Returns(value) == [kind |-> "value", value |-> value]
ReturnsNone == [kind |-> "None", value |-> 0]
Raises(exception) == [kind |-> exception, value |-> 0]

----------------------------------------------------------------------------
(* Inputs explored *)

\* Sizes the viewport widget is given by resize events (device pixels).
Sizes == {<<16, 12>>, <<24, 16>>}
\* Pointer positions in widget coordinates (event.pos()).
Points == {<<0, 0>>, <<13, 2>>}
\* Position of the widget on the screen: global = local + origin.
origin == <<3, 2>>
\* event.angleDelta().y() of the wheel events.
WheelDeltas == {-4000, -120, 120, 4000}
\* The uint16 RGBA arrays the host sets: shape is array.shape, <<rows,
\* columns, channels>>, and turns counts the quarter turns
\* (counterclockwise) applied to the array since the host passed it.
Arrays ==
    {[shape |-> <<50, 100, 4>>, turns |-> 0, dtype |-> "uint16"],
     [shape |-> <<512, 512, 4>>, turns |-> 0, dtype |-> "uint16"]}
\* arrays of other sample types: one that is converted, one that is refused
OtherArrays ==
    {[shape |-> <<50, 100, 4>>, turns |-> 0, dtype |-> "uint8"],
     [shape |-> <<50, 100, 4>>, turns |-> 0, dtype |-> "int32"]}
\* arrays of other shapes: of two dimensions, and of three with one, two,
\* three and five channels
ShapedArrays ==
    {[shape |-> <<50, 100>>, turns |-> 0, dtype |-> "uint16"],
     [shape |-> <<50, 100, 1>>, turns |-> 0, dtype |-> "uint8"],
     [shape |-> <<50, 100, 2>>, turns |-> 0, dtype |-> "uint16"],
     [shape |-> <<50, 100, 3>>, turns |-> 0, dtype |-> "float32"],
     [shape |-> <<50, 100, 5>>, turns |-> 0, dtype |-> "uint16"]}
\* Angles the host asks rotate_image_90 for
Angles == {-90, 45, 90, 180}
\* Size of the image ImageItem generates when it is given none.
default_image == <<512, 512>>
\* Default of the default_image_visible argument of LqtImageViewport
default_image_visible == TRUE
\* Size of the viewport before its first resize event; nothing reads it
\* until then.
initial_size == <<16, 12>>

----------------------------------------------------------------------------
(* Qt geometry: QRectF as [x, y, w, h], QPointF as <<x, y>> *)

\* QRectF.adjusted: the four edges are moved by the four amounts.
adjusted(r, x1, y1, x2, y2) ==
    [x |-> FAdd(r.x, x1), y |-> FAdd(r.y, y1),
     w |-> FSub(FAdd(r.w, x2), x1), h |-> FSub(FAdd(r.h, y2), y1)]

\* QRectF.center
center(r) == <<FAdd(r.x, Halve(r.w)), FAdd(r.y, Halve(r.h))>>

\* QRectF.moveCenter: the size is kept
moveCenter(r, c) ==
    [r EXCEPT !.x = FSub(c[1], Halve(r.w)), !.y = FSub(c[2], Halve(r.h))]

\* QCursor.pos() of a pointer at widget position p
ToGlobal(p) == <<p[1] + origin[1], p[2] + origin[2]>>

\* QWidget.mapFromGlobal
mapFromGlobal(g) == <<g[1] - origin[1], g[2] - origin[2]>>

\* 2 ** (delta * -0.001) for the deltas explored, to 20 fractional bits.
Pow2Milli_down(delta) ==
    CASE delta = -120  -> 1139524
      [] delta = 0     -> 1048576
      [] delta = 120   -> 964887
      [] delta \notin {-120, 0, 120} -> 1048576

\* 2 ** (delta * 0.001) for the deltas explored, to 20 fractional bits.
Pow2Milli(delta) ==
    CASE delta = -4000 -> 65536
      [] delta = -1000 -> 524288
      [] delta = -120  -> 964887
      [] delta = 0     -> 1048576
      [] delta = 120   -> 1139524
      [] delta = 1000  -> 2097152
      [] delta = 4000  -> 16777216

----------------------------------------------------------------------------
(* NavigableGraphicView / LIVGraphicView *)

zoom_enable == TRUE
zoom_min == FDiv(F(1), F(10))
zoom_max == F(20)

\* GraphicViewState flags
noneState == "noneState"
panState == "panState"
zoomState == "zoomState"

VARIABLES
    zoom,                \* NavigableGraphicView._zoom
    sceneRect,           \* QGraphicsView.sceneRect(): the WorldRect
    m11,                 \* scale factor of QGraphicsView.transform()
    viewportSize,        \* QGraphicsView.viewport().size()
    state,               \* NavigableGraphicView._state, a set of flags
    mouse_previous_pos,  \* NavigableGraphicView._mouse_previous_pos
    mouse_initial_pos,   \* NavigableGraphicView._mouse_initial_pos
    item_image,          \* size of ImageItem._image
    shown,               \* the view has had its first resize event
    steps,               \* handlers and methods run so far
    last,                \* the last handler or method run and its arguments
    image_array,         \* LqtImageViewport._image_array
    rotation_angle,      \* LqtImageViewport._rotation_angle
    item_visible,        \* ImageItem.isVisible()
    returned,            \* what the last method call returned or raised
    plugins,             \* LqtImageViewport._plugins
    view_plugins,        \* the plugins handed to graphic_view.add_plugin, in order
    picker,              \* the ColorPickerPlugin: visibility, _scene_rect, _control_state
    grid,                \* the CoordinatesGridPlugin: visibility, _rect, _tiles_number
    log,                 \* plugin hooks called and signals emitted by the last method
    transforms,          \* BaseScreenSpacePlugin._transform of each plugin
    QT6                  \* qtpy.QT6: the Qt binding in use is a Qt 6 one

vars == <<zoom, sceneRect, m11, viewportSize, state, mouse_previous_pos,
          mouse_initial_pos, item_image, shown, steps, last, image_array,
          rotation_angle, item_visible, returned, plugins, view_plugins,
          picker, grid, log, transforms, QT6>>

\* The variables of LqtImageViewport that the view's handlers leave alone
\* when they change neither the scene rectangle nor the transform
viewport_vars == <<image_array, rotation_angle, item_visible, returned, plugins,
                   view_plugins, picker, grid, log, transforms, QT6>>

\* The variables of the view that the methods of LqtImageViewport leave alone
navigation_vars == <<zoom, m11, viewportSize, state, mouse_previous_pos,
                     mouse_initial_pos, shown>>

\* The fields of the view that the navigation helpers read and write.
View == [zoom |-> zoom, rect |-> sceneRect, m11 |-> m11, size |-> viewportSize]

\* QGraphicsView.mapToScene: the scene rectangle fits in the viewport (its
\* device size is the viewport's minus 0.5 * zoom) and is centered in it
\* (default alignment), so the center of the viewport shows the center of
\* the scene rectangle; the inverted transform scales by 1 / m11.
mapToScene(v, p) ==
    LET c == center(v.rect)
        inv == FDiv(One, v.m11)
    IN  <<FAdd(c[1], FMul(FSub(F(p[1]), Halve(F(v.size[1]))), inv)),
          FAdd(c[2], FMul(FSub(F(p[2]), Halve(F(v.size[2]))), inv))>>

\* _pan_viewport moving the top-left corner only
pan_viewport_topleft(v, x_amount, y_amount) ==
    [v EXCEPT !.rect = adjusted(v.rect, x_amount, y_amount, 0, 0)]

\* _pan_viewport on a rectangle of integer coordinates (QRect)
pan_viewport_aligned(v, x_amount, y_amount) ==
    LET r == adjusted(v.rect, x_amount, y_amount, x_amount, y_amount)
        toInt(a) == Sign(a) * F(RoundHalfEven(Abs(a), Scale))
    IN  [v EXCEPT !.rect = [r EXCEPT !.x = toInt(r.x), !.y = toInt(r.y)]]

pan_viewport(v, x_amount, y_amount) ==
    [v EXCEPT !.rect = adjusted(v.rect, x_amount, y_amount, x_amount, y_amount)]

\* _update_scene_rect keeping the center of the rectangle where it was
update_scene_rect_centered(v) ==
    LET width == FSub(FDiv(F(v.size[1]), v.zoom), Half)
        height == FSub(FDiv(F(v.size[2]), v.zoom), Half)
    IN  [v EXCEPT !.rect = moveCenter([v.rect EXCEPT !.w = width, !.h = height],
                                      center(v.rect)),
                  !.m11 = v.zoom]

update_scene_rect(v) ==
    LET width == IF zoom_enable
                 THEN FSub(FDiv(F(v.size[1]), v.zoom), Half)
                 ELSE F(v.size[1])
        height == IF zoom_enable
                  THEN FSub(FDiv(F(v.size[2]), v.zoom), Half)
                  ELSE F(v.size[2])
    IN  [v EXCEPT !.rect = [v.rect EXCEPT !.w = width, !.h = height],
                  !.m11 = IF zoom_enable THEN v.zoom ELSE v.m11]

\* round(x, n) of Python for a float x >= 0
py_round(x, n) == FDiv(F(RoundHalfEven(x * 10 ^ n, Scale)), F(10 ^ n))

\* _zoom_viewport adding the amount to the zoom instead of multiplying by it
zoom_viewport_additive(v, amount, cursor_pos) ==
    LET new_zoom == FSub(FAdd(v.zoom, amount), One)
        v1 == [v EXCEPT !.zoom = new_zoom]
        previous_pos == mapToScene(v1, mapFromGlobal(cursor_pos))
        v2 == update_scene_rect(v1)
        after_pos == mapToScene(v2, mapFromGlobal(cursor_pos))
    IN  IF new_zoom < zoom_min \/ new_zoom > zoom_max THEN v
        ELSE pan_viewport(v2, FSub(previous_pos[1], after_pos[1]),
                              FSub(previous_pos[2], after_pos[2]))

\* _zoom_viewport without the pan that brings the anchor back
zoom_viewport_unanchored(v, amount, cursor_pos) ==
    LET new_zoom == FMul(v.zoom, amount)
    IN  IF new_zoom < zoom_min \/ new_zoom > zoom_max THEN v
        ELSE update_scene_rect([v EXCEPT !.zoom = new_zoom])

\* _zoom_viewport without its limit test
zoom_viewport_unlimited(v, amount, cursor_pos) ==
    LET new_zoom == FMul(v.zoom, amount)
        v1 == [v EXCEPT !.zoom = new_zoom]
        previous_pos == mapToScene(v1, mapFromGlobal(cursor_pos))
        v2 == update_scene_rect(v1)
        after_pos == mapToScene(v2, mapFromGlobal(cursor_pos))
    IN  pan_viewport(v2, FSub(previous_pos[1], after_pos[1]),
                         FSub(previous_pos[2], after_pos[2]))

\* _zoom_viewport bringing an out-of-range zoom back to the nearest limit
zoom_viewport_clamped(v, amount, cursor_pos) ==
    LET product == FMul(v.zoom, amount)
        new_zoom == IF product < zoom_min THEN zoom_min
                    ELSE IF product > zoom_max THEN zoom_max ELSE product
        v1 == [v EXCEPT !.zoom = new_zoom]
        previous_pos == mapToScene(v1, mapFromGlobal(cursor_pos))
        v2 == update_scene_rect(v1)
        after_pos == mapToScene(v2, mapFromGlobal(cursor_pos))
    IN  pan_viewport(v2, FSub(previous_pos[1], after_pos[1]),
                         FSub(previous_pos[2], after_pos[2]))

zoom_viewport(v, amount, cursor_pos) ==
    LET new_zoom == FMul(v.zoom, amount)
        v1 == [v EXCEPT !.zoom = new_zoom]
        previous_pos == mapToScene(v1, mapFromGlobal(cursor_pos))
        v2 == update_scene_rect(v1)
        after_pos == mapToScene(v2, mapFromGlobal(cursor_pos))
    IN  IF ~zoom_enable THEN v
        ELSE IF new_zoom < zoom_min \/ new_zoom > zoom_max THEN v
        ELSE pan_viewport(v2, FSub(previous_pos[1], after_pos[1]),
                              FSub(previous_pos[2], after_pos[2]))

reset_zoom(v, cursor_pos) ==
    zoom_viewport(v, FDiv(One, v.zoom), cursor_pos)

\* ImageItem.boundingRect at the item's scene position (0, 0)
get_image_rect == [x |-> 0, y |-> 0, w |-> F(item_image[1]), h |-> F(item_image[2])]

\* _center_image moving the center to the top-left corner of the image
center_image_topleft(v) ==
    [v EXCEPT !.rect = moveCenter(v.rect, <<get_image_rect.x, get_image_rect.y>>)]

center_image(v) == [v EXCEPT !.rect = moveCenter(v.rect, center(get_image_rect))]

\* bool(QPoint): a null point (0, 0) is false, like None
Truthy(p) == p # None /\ p # <<0, 0>>

SetView(v) ==
    /\ zoom' = v.zoom
    /\ sceneRect' = v.rect
    /\ m11' = v.m11
    /\ viewportSize' = v.size

\* A zoom request new_zoom = zoom * amount passes the limits of _zoom_viewport.
InLimits(z, amount) ==
    ~(FMul(z, amount) < zoom_min \/ FMul(z, amount) > zoom_max)

----------------------------------------------------------------------------
(* Qt geometry used by the plugins *)

\* int(x) of a float: truncation toward zero
int(a) == Sign(a) * (Abs(a) \div Scale)

\* C++ integer division by two: truncation toward zero
Trunc2(n) == Sign(n) * (Abs(n) \div 2)

\* QRect(x, y, w, h): Qt keeps the two corners, right = x + w - 1
QRect(x, y, w, h) == [x1 |-> x, y1 |-> y, x2 |-> x + w - 1, y2 |-> y + h - 1]

\* QRect.width() and QRect.height()
width(r) == r.x2 - r.x1 + 1
height(r) == r.y2 - r.y1 + 1

\* QRect.setTopLeft, QRect.setBottomRight, QRect.setSize
setTopLeft(r, p) == [r EXCEPT !.x1 = p[1], !.y1 = p[2]]
setBottomRight(r, p) == [r EXCEPT !.x2 = p[1], !.y2 = p[2]]
setSize(r, w, h) == [r EXCEPT !.x2 = r.x1 + w - 1, !.y2 = r.y1 + h - 1]

\* QRect.moveCenter
QRect_moveCenter(r, p) ==
    LET w == r.x2 - r.x1
        h == r.y2 - r.y1
        x1 == p[1] - Trunc2(w)
        y1 == p[2] - Trunc2(h)
    IN  [x1 |-> x1, y1 |-> y1, x2 |-> x1 + w, y2 |-> y1 + h]

\* QRect.normalized: Qt 5 swaps the corners of a rectangle of negative
\* width, Qt 6 moves them so that the result has the geometry of the
\* normalized QRectF; both leave a rectangle of width 0 as it is.
normalized(r) ==
    LET xs == IF QT6
              THEN IF r.x2 < r.x1 THEN <<r.x2 + 1, r.x1 - 1>> ELSE <<r.x1, r.x2>>
              ELSE IF r.x2 < r.x1 - 1 THEN <<r.x2, r.x1>> ELSE <<r.x1, r.x2>>
        ys == IF QT6
              THEN IF r.y2 < r.y1 THEN <<r.y2 + 1, r.y1 - 1>> ELSE <<r.y1, r.y2>>
              ELSE IF r.y2 < r.y1 - 1 THEN <<r.y2, r.y1>> ELSE <<r.y1, r.y2>>
    IN  [x1 |-> xs[1], y1 |-> ys[1], x2 |-> xs[2], y2 |-> ys[2]]

\* QRectF(QRect)
QRectF(r) == [x |-> F(r.x1), y |-> F(r.y1), w |-> F(width(r)), h |-> F(height(r))]

\* QRectF.contains(QPointF): the edges belong to the rectangle, and a
\* rectangle without width or height contains nothing
contains(r, p) ==
    LET l == IF r.w < 0 THEN FAdd(r.x, r.w) ELSE r.x
        rr == IF r.w < 0 THEN r.x ELSE FAdd(r.x, r.w)
        t == IF r.h < 0 THEN FAdd(r.y, r.h) ELSE r.y
        b == IF r.h < 0 THEN r.y ELSE FAdd(r.y, r.h)
    IN  /\ l # rr
        /\ ~(p[1] < l \/ p[1] > rr)
        /\ t # b
        /\ ~(p[2] < t \/ p[2] > b)

\* QRectF.united
united(a, b) ==
    LET Left(r) == IF r.w < 0 THEN FAdd(r.x, r.w) ELSE r.x
        Right(r) == IF r.w < 0 THEN r.x ELSE FAdd(r.x, r.w)
        Top(r) == IF r.h < 0 THEN FAdd(r.y, r.h) ELSE r.y
        Bottom(r) == IF r.h < 0 THEN r.y ELSE FAdd(r.y, r.h)
        Min(m, n) == IF m < n THEN m ELSE n
        Max(m, n) == IF m > n THEN m ELSE n
        left == Min(Left(a), Left(b))
        top == Min(Top(a), Top(b))
    IN  IF a.w = 0 /\ a.h = 0 THEN b
        ELSE IF b.w = 0 /\ b.h = 0 THEN a
        ELSE [x |-> left, y |-> top,
              w |-> FSub(Max(Right(a), Right(b)), left),
              h |-> FSub(Max(Bottom(a), Bottom(b)), top)]

\* QPointF.toPoint: qRound of each coordinate; a negative half is rounded
\* away from zero by Qt 6 and up by Qt 5
qRound(a) ==
    IF a >= 0 THEN (a + Scale \div 2) \div Scale
    ELSE IF QT6 THEN -((-a + Scale \div 2) \div Scale)
    ELSE (a + Scale \div 2) \div Scale
toPoint(p) == <<qRound(p[1]), qRound(p[2])>>

\* _pointf_to_point rounding to the nearest pixel as toPoint() does
pointf_to_point_rounded(pointf) == toPoint(pointf)

\* _pointf_to_point
pointf_to_point(pointf) == <<int(pointf[1]), int(pointf[2])>>

----------------------------------------------------------------------------
(* BaseScreenSpacePlugin *)

plugins_coord == "plugins_coord"
plugin_color_picker == "plugin_color_picker"

\* QtGui.QTransform(): the identity.  A transform made of a scale and a
\* translation is held as [m11, m22, dx, dy].
QTransform == [m11 |-> One, m22 |-> One, dx |-> 0, dy |-> 0]

\* QTransform.scale
scale(t, sx, sy) == [t EXCEPT !.m11 = FMul(@, sx), !.m22 = FMul(@, sy)]

\* QTransform.inverted()[0] of a scale and a translation: the identity when
\* a scale is null
inverted(t) ==
    IF t.m11 = 0 \/ t.m22 = 0 THEN QTransform
    ELSE LET m11inv == FDiv(One, t.m11)
             m22inv == FDiv(One, t.m22)
         IN  [m11 |-> m11inv, m22 |-> m22inv,
              dx |-> FMul(-t.dx, m11inv), dy |-> FMul(-t.dy, m22inv)]

\* QTransform.map(QPointF)
QTransform_map(t, p) ==
    <<FAdd(FMul(t.m11, p[1]), t.dx), FAdd(FMul(t.m22, p[2]), t.dy)>>

\* QTransform.mapRect(QRectF): a negative scale turns the rectangle over
QTransform_mapRect(t, r) ==
    LET x == FAdd(FMul(t.m11, r.x), t.dx)
        y == FAdd(FMul(t.m22, r.y), t.dy)
        w == FMul(t.m11, r.w)
        h == FMul(t.m22, r.h)
    IN  [x |-> IF w < 0 THEN FAdd(x, w) ELSE x,
         y |-> IF h < 0 THEN FAdd(y, h) ELSE y,
         w |-> Abs(w), h |-> Abs(h)]

\* map_from_screenspace giving the rectangle back as it came
map_from_screenspace_same(t, r) == r

\* BaseScreenSpacePlugin.map_from_screenspace and map_to_screenspace of a
\* QRectF, for a plugin whose transform is t
map_from_screenspace(t, r) == QTransform_mapRect(inverted(t), r)
map_rect_to_screenspace(t, r) == QTransform_mapRect(t, r)

\* BaseScreenSpacePlugin.transform of the color picker
transform == transforms[plugin_color_picker]

\* map_to_screenspace of the color picker, for a QPointF and for a QRectF
map_to_screenspace(p) == QTransform_map(transform, p)
mapRect(r) == map_rect_to_screenspace(transform, r)

\* BaseScreenSpacePlugin.image_scene_rect for an image of the given size
image_scene_rect(image) == mapRect([x |-> 0, y |-> 0, w |-> F(image[1]), h |-> F(image[2])])

----------------------------------------------------------------------------
(* LIVKeyShortcut and LIVKeyShortcuts *)

\* Qt.KeyboardModifier flags, as sets of the modifier keys held
NoModifier == {}
ShiftModifier == {"Shift"}
ControlModifier == {"Control"}
AltModifier == {"Alt"}

\* LIVKeyShortcut.modifiers: None, or a tuple of flags
NoModifiers == [is_none |-> TRUE, items |-> <<>>]
Modifiers(items) == [is_none |-> FALSE, items |-> items]

\* LIVKeyShortcut(key, modifiers, modifier_matching), exact by default
LIVKeyShortcut(key, modifiers, modifier_matching) ==
    [key |-> key, modifiers |-> modifiers, modifier_matching |-> modifier_matching]

\* The events: their class, their type, key() of a key event, button() and
\* the positions of a mouse event, and modifiers()
KeyEvent(type, key, modifiers) ==
    [class |-> "QKeyEvent", type |-> type, key |-> key, button |-> "NoButton",
     modifiers |-> modifiers, scenePos |-> <<0, 0>>, pos |-> <<0, 0>>]
MouseEvent(class, type, button, modifiers, scenePos, pos) ==
    [class |-> class, type |-> type, key |-> "", button |-> button,
     modifiers |-> modifiers, scenePos |-> scenePos, pos |-> pos]
OtherEvent(type, modifiers) ==
    [class |-> "QEvent", type |-> type, key |-> "", button |-> "NoButton",
     modifiers |-> modifiers, scenePos |-> <<0, 0>>, pos |-> <<0, 0>>]

\* match_event that looks at the key or button before the modifiers are
\* compared and accepts on it alone
match_event_key_only(shortcut, event, modifier_matching) ==
    /\ event.class \in {"QKeyEvent", "QMouseEvent", "QGraphicsSceneMouseEvent"}
    /\ shortcut.key = (IF event.class = "QKeyEvent" THEN event.key ELSE event.button)

\* LIVKeyShortcut.match_event; modifier_matching "None" stands for the
\* argument left out
match_event(shortcut, event, modifier_matching) ==
    LET matching == IF modifier_matching = "None" THEN shortcut.modifier_matching
                    ELSE modifier_matching
        key == IF event.class = "QKeyEvent" THEN event.key ELSE event.button
        modifiers == shortcut.modifiers.items
        exact_modifiers == UNION {modifiers[i] : i \in DOMAIN modifiers}
        active(i) == (event.modifiers \cap modifiers[i]) # {}
    IN  IF event.class \notin {"QKeyEvent", "QMouseEvent", "QGraphicsSceneMouseEvent"}
        THEN FALSE
        ELSE IF /\ ~shortcut.modifiers.is_none
                /\ matching = "exact"
                /\ event.modifiers # exact_modifiers
        THEN FALSE
        ELSE IF /\ ~shortcut.modifiers.is_none
                /\ matching = "contains_all"
                /\ ~(\A i \in DOMAIN modifiers : active(i))
        THEN FALSE
        ELSE IF /\ ~shortcut.modifiers.is_none
                /\ matching = "contains_any"
                /\ ~(\E i \in DOMAIN modifiers : active(i))
        THEN FALSE
        ELSE shortcut.key = key

\* dataclasses.fields(LIVKeyShortcuts): the fields in declaration order
fields ==
    <<"reset_zoom", "change_background", "reset_pan", "pan1", "pan2", "zoom2",
      "pick", "pick_area_start", "pick_area_expand", "unpick",
      "view_coordinates1", "view_coordinates2", "set_coordinates_tiles",
      "rotate_90_up", "rotate_90_down", "clear">>

\* LIVKeyShortcuts.get_default
get_default ==
    [reset_zoom |-> LIVKeyShortcut("Key_Home", Modifiers(<<>>), "exact"),
     reset_pan |-> LIVKeyShortcut("Key_F", Modifiers(<<>>), "exact"),
     change_background |-> LIVKeyShortcut("Key_B", Modifiers(<<>>), "exact"),
     pan1 |-> LIVKeyShortcut("LeftButton", Modifiers(<<AltModifier>>), "contains_all"),
     pan2 |-> LIVKeyShortcut("MiddleButton", Modifiers(<<NoModifier>>), "exact"),
     zoom2 |-> LIVKeyShortcut("MiddleButton", Modifiers(<<AltModifier>>), "contains_all"),
     pick |-> LIVKeyShortcut("LeftButton", Modifiers(<<ControlModifier>>), "exact"),
     pick_area_start |->
         LIVKeyShortcut("LeftButton", Modifiers(<<ControlModifier, ShiftModifier>>), "exact"),
     pick_area_expand |->
         LIVKeyShortcut("NoButton", Modifiers(<<ControlModifier, ShiftModifier>>), "exact"),
     unpick |-> LIVKeyShortcut("RightButton", Modifiers(<<ControlModifier>>), "exact"),
     view_coordinates1 |->
         LIVKeyShortcut("Key_Alt", Modifiers(<<ShiftModifier, AltModifier>>), "exact"),
     view_coordinates2 |->
         LIVKeyShortcut("Key_Shift", Modifiers(<<AltModifier, ShiftModifier>>), "exact"),
     set_coordinates_tiles |->
         LIVKeyShortcut("MiddleButton", Modifiers(<<AltModifier, ShiftModifier>>), "exact"),
     rotate_90_up |-> LIVKeyShortcut("Key_Q", Modifiers(<<>>), "exact"),
     rotate_90_down |-> LIVKeyShortcut("Key_E", Modifiers(<<>>), "exact"),
     clear |-> LIVKeyShortcut("Key_C", Modifiers(<<AltModifier>>), "exact")]

\* the loop of get_event_matching_shortcut from the i-th field on
RECURSIVE matching_from(_, _, _)
matching_from(table, event, i) ==
    IF i > Len(fields) THEN ReturnsNone
    ELSE IF match_event(table[fields[i]], event, "None") THEN Returns(table[fields[i]])
    ELSE matching_from(table, event, i + 1)

\* get_event_matching_shortcut going through the fields from the last one
RECURSIVE matching_from_last(_, _, _)
matching_from_last(table, event, i) ==
    IF i < 1 THEN ReturnsNone
    ELSE IF match_event(table[fields[i]], event, "None") THEN Returns(table[fields[i]])
    ELSE matching_from_last(table, event, i - 1)
get_event_matching_shortcut_reversed(table, event) ==
    matching_from_last(table, event, Len(fields))

\* LIVKeyShortcuts.get_event_matching_shortcut
get_event_matching_shortcut(table, event) == matching_from(table, event, 1)

\* the shortcuts of the scene, those of the viewport
shortcuts == get_default

----------------------------------------------------------------------------
(* The plugins: ColorPickerPlugin and CoordinatesGridPlugin *)

\* ColorPickerPlugin.__init__ and CoordinatesGridPlugin.__init__
ColorPickerPlugin == [visible |-> FALSE, scene_rect |-> QRect(0, 0, 10, 10),
                      control_state |-> "none"]
CoordinatesGridPlugin == [visible |-> FALSE, rect |-> <<64, 64>>, tiles_number |-> 6]

\* ColorPickerPlugin.get_picked_area
get_picked_area(p) == normalized(p.scene_rect)

\* get_color_picked_area that does not look at the visibility
get_color_picked_area_any(p) == Returns(get_picked_area(p))

\* LqtImageViewport.get_color_picked_area
get_color_picked_area(p) ==
    IF ~p.visible THEN ReturnsNone ELSE Returns(get_picked_area(p))

\* The viewport, its image item and its plugins as the methods below read
\* and write them; log starts empty with each method.
Viewport ==
    [image_array |-> image_array, item_image |-> item_image,
     item_visible |-> item_visible, rect |-> sceneRect,
     rotation_angle |-> rotation_angle, plugins |-> plugins,
     view_plugins |-> view_plugins, picker |-> picker, grid |-> grid,
     transforms |-> transforms, log |-> <<>>]

SetViewport(s) ==
    /\ image_array' = s.image_array
    /\ item_image' = s.item_image
    /\ item_visible' = s.item_visible
    /\ sceneRect' = s.rect
    /\ rotation_angle' = s.rotation_angle
    /\ plugins' = s.plugins
    /\ view_plugins' = s.view_plugins
    /\ picker' = s.picker
    /\ grid' = s.grid
    /\ log' = s.log
    /\ transforms' = s.transforms
    /\ UNCHANGED <<navigation_vars, QT6>>

\* A plugin hook being entered, and a signal being emitted: the log keeps
\* what a slot connected to the signal reads from the viewport at that
\* moment.
Entry(s, kind, name, plugin) ==
    [kind |-> kind, name |-> name, plugin |-> plugin,
     area |-> get_color_picked_area(s.picker),
     image_array |-> s.image_array, item_image |-> s.item_image,
     picker |-> s.picker, transforms |-> s.transforms]
Hook(s, name, plugin) == [s EXCEPT !.log = Append(@, Entry(s, "hook", name, plugin))]
Emit(s, name) == [s EXCEPT !.log = Append(@, Entry(s, "signal", name, ""))]

\* ColorPickerPlugin._is_point_inside_image
is_point_inside_image(s, point) ==
    contains(image_scene_rect(s.item_image), map_to_screenspace(point))

\* ColorPickerPlugin._surface_rect() with no center given
surface_rect(s) ==
    mapRect(moveCenter(QRectF(s.picker.scene_rect), <<0, 0>>))

\* ColorPickerPlugin._center_rect
center_rect(s) ==
    moveCenter([x |-> 0, y |-> 0, w |-> F(12), h |-> F(12)], center(surface_rect(s)))

\* on_image_changed emitting before it hides the picker
picker_on_image_changed_emit_first(s) ==
    [Emit(s, "picked_color_changed") EXCEPT !.picker.visible = FALSE]

\* ColorPickerPlugin.on_image_changed
picker_on_image_changed(s) ==
    Emit([s EXCEPT !.picker.visible = FALSE], "picked_color_changed")

\* ColorPickerPlugin.set_visibility_from_scene_event
picker_set_visibility_from_scene_event(s, event) ==
    IF event.class # "QGraphicsSceneMouseEvent" THEN s
    ELSE IF /\ event.type = "GraphicsSceneMousePress"
            /\ \/ match_event(shortcuts.pick, event, "None")
               \/ match_event(shortcuts.pick_area_start, event, "None")
            /\ is_point_inside_image(s, event.scenePos)
    THEN Emit([s EXCEPT !.picker.visible = TRUE,
                        !.picker.scene_rect =
                            setSize(setTopLeft(@, pointf_to_point(event.scenePos)), 1, 1)],
              "picked_color_changed")
    ELSE IF /\ event.type = "GraphicsSceneMouseMove"
            /\ match_event(shortcuts.pick_area_expand, event, "None")
            /\ is_point_inside_image(s, event.scenePos)
    THEN [Emit([s EXCEPT !.picker.scene_rect =
                             setBottomRight(@, pointf_to_point(event.scenePos))],
               "picked_color_changed")
          EXCEPT !.picker.control_state = "expand"]
    ELSE IF /\ event.type = "GraphicsSceneMousePress"
            /\ match_event(shortcuts.unpick, event, "None")
    THEN Emit([s EXCEPT !.picker.visible = FALSE], "picked_color_changed")
    ELSE s

\* ColorPickerPlugin.mousePressEvent; event.pos() is in the item's own
\* coordinates
picker_mousePress(s, event) ==
    IF event.button # "LeftButton" THEN s
    ELSE IF \/ (width(s.picker.scene_rect) = 1 /\ height(s.picker.scene_rect) = 1)
            \/ contains(center_rect(s), event.pos)
    THEN [s EXCEPT !.picker.control_state = "center"]
    ELSE [s EXCEPT !.picker.control_state = "border"]

\* ColorPickerPlugin.mouseMoveEvent with _update_center_from.  QRectF's !=
\* compares within a relative 1e-12, which is finer than a float of the
\* model.
picker_mouseMove(s, event) ==
    LET pos == event.scenePos
        future_rect == moveCenter(surface_rect(s),
                                  LET c == toPoint(map_to_screenspace(pos))
                                  IN  <<F(c[1]), F(c[2])>>)
        image == image_scene_rect(s.item_image)
    IN  IF s.picker.control_state = "none" THEN s
        ELSE IF s.picker.control_state # "center" THEN s
        ELSE IF united(image, future_rect) # image THEN s
        ELSE Emit([s EXCEPT !.picker.scene_rect =
                                QRect_moveCenter(@, pointf_to_point(pos))],
                  "picked_color_changed")

\* ColorPickerPlugin.mouseReleaseEvent
picker_mouseRelease(s, event) == [s EXCEPT !.picker.control_state = "none"]

\* set_visibility_from_scene_event matching the release of a key as it
\* matches its press, with the modifiers of the shortcut exactly
grid_set_visibility_exact(s, event) ==
    IF /\ event.type \in {"ShortcutOverride", "KeyPress"}
       /\ \/ match_event(shortcuts.view_coordinates1, event, "None")
          \/ match_event(shortcuts.view_coordinates2, event, "None")
    THEN [s EXCEPT !.grid.visible = TRUE]
    ELSE IF /\ event.type = "KeyRelease"
            /\ \/ match_event(shortcuts.view_coordinates1, event, "None")
               \/ match_event(shortcuts.view_coordinates2, event, "None")
    THEN [s EXCEPT !.grid.visible = FALSE]
    ELSE s

\* CoordinatesGridPlugin.set_visibility_from_scene_event
grid_set_visibility_from_scene_event(s, event) ==
    IF /\ event.type \in {"ShortcutOverride", "KeyPress"}
       /\ \/ match_event(shortcuts.view_coordinates1, event, "None")
          \/ match_event(shortcuts.view_coordinates2, event, "None")
    THEN [s EXCEPT !.grid.visible = TRUE]
    ELSE IF /\ event.type = "KeyRelease"
            /\ \/ match_event(shortcuts.view_coordinates1, event, "contains_any")
               \/ match_event(shortcuts.view_coordinates2, event, "contains_any")
    THEN [s EXCEPT !.grid.visible = FALSE]
    ELSE s

\* CoordinatesGridPlugin.reload: the grid covers the image
grid_reload(s) == [s EXCEPT !.grid.rect = s.item_image]

\* plugin.reload(), plugin.on_image_changed() and
\* plugin.set_visibility_from_scene_event(event) of the plugin of that name;
\* a plugin of the host has the hooks of BaseScreenSpacePlugin, which do
\* nothing.
reload(s, plugin) ==
    IF plugin = plugins_coord THEN grid_reload(Hook(s, "reload", plugin))
    ELSE Hook(s, "reload", plugin)
\* on_image_changed of a color picker that does not override it
on_image_changed_unhandled(s, plugin) == Hook(s, "on_image_changed", plugin)
on_image_changed(s, plugin) ==
    IF plugin = plugin_color_picker
    THEN picker_on_image_changed(Hook(s, "on_image_changed", plugin))
    ELSE Hook(s, "on_image_changed", plugin)
set_visibility_from_scene_event(s, plugin, event) ==
    IF plugin = plugin_color_picker THEN picker_set_visibility_from_scene_event(s, event)
    ELSE IF plugin = plugins_coord THEN grid_set_visibility_from_scene_event(s, event)
    ELSE s

\* The plugins told of the new image before they are reloaded
RECURSIVE ImageChanged_told_first(_, _)
ImageChanged_told_first(s, i) ==
    IF i > Len(s.plugins) THEN s
    ELSE ImageChanged_told_first(reload(on_image_changed(s, s.plugins[i]), s.plugins[i]),
                                 i + 1)

\* [(plugin.reload(), plugin.on_image_changed()) for plugin in self._plugins]
\* from the i-th plugin on
RECURSIVE ImageChanged(_, _)
ImageChanged(s, i) ==
    IF i > Len(s.plugins) THEN s
    ELSE ImageChanged(on_image_changed(reload(s, s.plugins[i]), s.plugins[i]), i + 1)

\* [plugin.set_visibility_from_scene_event(event) for plugin in self._plugins]
\* from the i-th plugin on
RECURSIVE SceneEvent(_, _, _)
SceneEvent(s, event, i) ==
    IF i > Len(s.plugins) THEN s
    ELSE SceneEvent(set_visibility_from_scene_event(s, s.plugins[i], event), event, i + 1)

----------------------------------------------------------------------------
(* LqtImageViewport *)

\* numpy.rot90(array, k): k quarter turns, rows and columns swapped by an
\* odd k
rot90(array, k) ==
    [array EXCEPT !.shape = IF k % 2 = 0 THEN array.shape
                            ELSE [array.shape EXCEPT ![1] = array.shape[2],
                                                     ![2] = array.shape[1]],
                  !.turns = (array.turns + k) % 4]

\* The dtypes convert_bit_depth knows how to convert
SupportedDtypes == {"uint8", "uint16", "float16", "float32", "float64"}

\* convert_bit_depth(array, uint16)
convert_bit_depth(array) ==
    IF array.dtype \in SupportedDtypes THEN Returns([array EXCEPT !.dtype = "uint16"])
    ELSE Raises("TypeError")

\* ensure_rgba_array: an array of two dimensions is repeated into three
\* channels, more than four channels are cut to four, one channel is
\* repeated into three, and three channels are given an alpha channel
ensure_rgba_array(array) ==
    LET three == IF Len(array.shape) = 2 THEN <<array.shape[1], array.shape[2], 3>>
                 ELSE IF array.shape[3] > 4 THEN [array.shape EXCEPT ![3] = 4]
                 ELSE IF array.shape[3] = 1 THEN [array.shape EXCEPT ![3] = 3]
                 ELSE array.shape
    IN  [array EXCEPT !.shape = IF three[3] = 3 THEN [three EXCEPT ![3] = 4] ELSE three]

\* set_image_array making the QImage shape[0] wide and shape[1] high
set_image_array_transposed(array) ==
    IF array = None THEN default_image ELSE <<array.shape[1], array.shape[2]>>

\* ImageItem.set_image_array: the QImage is shape[1] wide and shape[0] high,
\* and None brings back the generated default image
set_image_array(array) ==
    IF array = None THEN default_image ELSE <<array.shape[2], array.shape[1]>>

\* add_plugin without the test for a plugin that is already there
add_plugin_again(s, plugin) ==
    [s EXCEPT !.plugins = Append(@, plugin), !.view_plugins = Append(@, plugin)]

\* LqtImageViewport.add_plugin
add_plugin(s, plugin) ==
    IF \E i \in DOMAIN s.plugins : s.plugins[i] = plugin THEN s
    ELSE [s EXCEPT !.plugins = Append(@, plugin), !.view_plugins = Append(@, plugin)]

\* The part of set_image_from_array that follows the conversions: the array
\* is stored and given to the item, the plugins are told, and an item that
\* was hidden is shown and the view centered on it.
SetImage(s, array) ==
    LET s1 == [s EXCEPT !.image_array = array, !.item_image = set_image_array(array)]
        s2 == ImageChanged(s1, 1)
    IN  IF ~s2.item_visible
        THEN [s2 EXCEPT !.item_visible = TRUE,
                        !.rect = moveCenter(@, center([x |-> 0, y |-> 0,
                                                       w |-> F(s2.item_image[1]),
                                                       h |-> F(s2.item_image[2])]))]
        ELSE s2

\* set_image_from_array storing the array before it converts it
SetImageFromArray_store_first(s, array) ==
    IF array.dtype # "uint16" /\ convert_bit_depth(array).kind = "TypeError"
    THEN [s |-> [s EXCEPT !.image_array = array], returned |-> Raises("TypeError")]
    ELSE [s |-> SetImage(s, ensure_rgba_array(convert_bit_depth(array).value)),
          returned |-> ReturnsNone]

\* LqtImageViewport.set_image_from_array: the viewport it leaves and what it
\* returns or raises
SetImageFromArray(s, array) ==
    IF array.dtype # "uint16" /\ convert_bit_depth(array).kind = "TypeError"
    THEN [s |-> s, returned |-> Raises("TypeError")]
    ELSE LET converted == IF array.dtype # "uint16" THEN convert_bit_depth(array).value
                          ELSE array
         IN  [s |-> SetImage(s, IF Len(converted.shape) = 2 \/ converted.shape[3] # 4
                                THEN ensure_rgba_array(converted)
                                ELSE converted),
              returned |-> ReturnsNone]

\* clear_image emitting its signal before anything else
ClearImage_emit_first(s) ==
    LET s1 == Emit(s, "image_cleared_signal")
        s2 == [s1 EXCEPT !.image_array = None, !.item_image = set_image_array(None)]
    IN  ImageChanged(s2, 1)

\* LqtImageViewport.clear_image
ClearImage(s) ==
    LET s1 == [s EXCEPT !.image_array = None, !.item_image = set_image_array(None)]
        s2 == ImageChanged(s1, 1)
    IN  Emit(s2, "image_cleared_signal")

\* rotate_image_90 looking at the angle after it stored it
RotateImage90_store_first(s, angle, add_existing) ==
    LET s1 == [s EXCEPT !.rotation_angle = IF add_existing THEN @ + angle ELSE angle]
    IN  IF angle % 90 # 0 THEN [s |-> s1, returned |-> Raises("ValueError")]
        ELSE IF s1.image_array = None THEN [s |-> s1, returned |-> ReturnsNone]
        ELSE [s |-> SetImage(s1, rot90(s1.image_array, angle \div 90)),
              returned |-> Returns(s1.rotation_angle)]

\* LqtImageViewport.rotate_image_90: the viewport it leaves and what it
\* returns or raises
RotateImage90(s, angle, add_existing) ==
    LET s1 == [s EXCEPT !.rotation_angle = IF add_existing THEN @ + angle ELSE angle]
        rotation == IF add_existing THEN angle ELSE s1.rotation_angle
    IN  IF angle % 90 # 0 THEN [s |-> s, returned |-> Raises("ValueError")]
        ELSE IF s1.image_array = None THEN [s |-> s1, returned |-> ReturnsNone]
        ELSE [s |-> SetImage(s1, rot90(s1.image_array, rotation \div 90)),
              returned |-> Returns(s1.rotation_angle)]

\* update_plugins reloading each plugin before it hands it the transform
RECURSIVE update_plugins_reload_first(_, _, _)
update_plugins_reload_first(s, t, i) ==
    IF i > Len(s.view_plugins) THEN s
    ELSE update_plugins_reload_first(
             [reload(s, s.view_plugins[i]) EXCEPT !.transforms[s.view_plugins[i]] = t],
             t, i + 1)

\* The view telling its plugins of a navigation change: each plugin added
\* to the view, from the i-th on, is handed the transform of the view and
\* reloaded.
RECURSIVE update_plugins(_, _, _)
update_plugins(s, t, i) ==
    IF i > Len(s.view_plugins) THEN s
    ELSE update_plugins(reload([s EXCEPT !.transforms[s.view_plugins[i]] = t],
                               s.view_plugins[i]),
                        t, i + 1)

\* What a handler of the view leaves: the view nv, and the plugins told of
\* it when the handler changed the scene rectangle or the transform.
Navigated(nv, changed) ==
    /\ SetView(nv)
    /\ IF changed
       THEN \E s \in {update_plugins(Viewport, scale(QTransform, nv.m11, nv.m11), 1)} :
                /\ transforms' = s.transforms
                /\ grid' = s.grid
                /\ log' = s.log
       ELSE UNCHANGED <<transforms, grid, log>>
    /\ UNCHANGED <<image_array, rotation_angle, item_visible, returned, plugins,
                   view_plugins, picker, QT6>>

\* Bookkeeping of a handler run: op names it; amount and anchor are the
\* arguments of its _zoom_viewport call (0 and None when it makes none) and
\* ok tells whether that call passed the zoom limits.
Step(op, amount, anchor, ok) ==
    /\ steps < MaxSteps
    /\ steps' = steps + 1
    /\ last' = [op |-> op, amount |-> amount, anchor |-> anchor, ok |-> ok]

\* resizeEvent; Qt sends the first one before the view is shown, and input
\* events reach a shown view only.
resizeEvent(size) ==
    /\ Step("resize", 0, None, FALSE)
    /\ \E nv \in {update_scene_rect([View EXCEPT !.size = size])} : Navigated(nv, TRUE)
    /\ shown' = TRUE
    /\ UNCHANGED <<state, mouse_previous_pos, mouse_initial_pos, item_image>>

wheelEvent(delta, p) ==
    /\ shown
    /\ steps < MaxSteps
    /\ steps' = steps + 1
    /\ \E amount \in {OnGrid(RoundSig(Pow2Milli(delta), GridBits - 20))} :
           /\ last' = [op |-> "wheel", amount |-> amount, anchor |-> ToGlobal(p),
                       ok |-> InLimits(zoom, amount), delta |-> delta, pos |-> p]
           /\ \E nv \in {zoom_viewport(View, amount, ToGlobal(p))} :
                  Navigated(nv, zoom_enable /\ InLimits(zoom, amount))
    /\ UNCHANGED <<state, mouse_previous_pos, mouse_initial_pos, item_image, shown>>

\* keyPressEvent with the reset_zoom shortcut
keyPressResetZoom(p) ==
    /\ shown
    /\ Step("reset_zoom", FDiv(One, zoom), ToGlobal(p), InLimits(zoom, FDiv(One, zoom)))
    /\ \E nv \in {reset_zoom(View, ToGlobal(p))} :
           Navigated(nv, zoom_enable /\ InLimits(zoom, FDiv(One, zoom)))
    /\ UNCHANGED <<state, mouse_previous_pos, mouse_initial_pos, item_image, shown>>

\* keyPressEvent with the reset_pan shortcut
keyPressResetPan ==
    /\ shown
    /\ Step("reset_pan", 0, None, FALSE)
    /\ \E nv \in {center_image(View)} : Navigated(nv, TRUE)
    /\ UNCHANGED <<state, mouse_previous_pos, mouse_initial_pos, item_image, shown>>

\* mousePressEvent; binding is the shortcut the event matches: pan1 or
\* pan2, zoom2, or none of them
mousePressEvent(binding, p) ==
    /\ shown
    /\ steps < MaxSteps
    /\ steps' = steps + 1
    /\ last' = [op |-> "press", amount |-> 0, anchor |-> None, ok |-> FALSE,
                binding |-> binding]
    /\ mouse_initial_pos' = ToGlobal(p)
    /\ state' = IF binding = "pan" THEN state \cup {panState}
                ELSE IF binding = "zoom" THEN state \cup {zoomState}
                ELSE state
    /\ UNCHANGED <<zoom, sceneRect, m11, viewportSize, mouse_previous_pos,
                   item_image, shown>>
    /\ UNCHANGED viewport_vars

\* A first move measured from the top-left corner of the viewport.
previous_pos_origin(p) ==
    IF Truthy(mouse_previous_pos) THEN mouse_previous_pos ELSE <<0, 0>>

\* self._mouse_previous_pos or event.pos()
previous_pos(p) ==
    IF Truthy(mouse_previous_pos) THEN mouse_previous_pos ELSE p

mouseMoveEvent(p) ==
    LET prev == previous_pos(p)
        init == IF Truthy(mouse_initial_pos) THEN mouse_initial_pos ELSE ToGlobal(p)
        diff_x0 == F(prev[1] - p[1])
        diff_y0 == F(prev[2] - p[2])
        panning == panState \in state
        diff_x == IF panning THEN FDiv(diff_x0, zoom) ELSE diff_x0
        diff_y == IF panning THEN FDiv(diff_y0, zoom) ELSE diff_y0
        v1 == IF panning THEN pan_viewport(View, diff_x, diff_y) ELSE View
        amount == FAdd(One, FMul(IF diff_x # 0 THEN diff_x ELSE diff_y, Cent))
        v2 == IF zoomState \in state THEN zoom_viewport(v1, amount, init) ELSE v1
        zooming == zoomState \in state
    IN  /\ shown
        /\ steps < MaxSteps
        /\ steps' = steps + 1
        /\ last' = [op |-> "move", amount |-> IF zooming THEN amount ELSE 0,
                    anchor |-> IF zooming THEN init ELSE None,
                    ok |-> zooming /\ InLimits(v1.zoom, amount),
                    previous_pos |-> mouse_previous_pos]
        /\ IF state = {noneState}
           THEN /\ UNCHANGED <<zoom, sceneRect, m11, viewportSize,
                               mouse_previous_pos, mouse_initial_pos>>
                /\ UNCHANGED viewport_vars
           ELSE /\ \E nv \in {v2} :
                       Navigated(nv, \/ panning
                                     \/ /\ zoomState \in state /\ zoom_enable
                                        /\ InLimits(v1.zoom, amount))
                /\ mouse_previous_pos' = p
                /\ mouse_initial_pos' = init
        /\ UNCHANGED <<state, item_image, shown>>

\* mouseReleaseEvent clearing the flag of the released binding only
mouseReleaseEvent_own_flag(binding) ==
    /\ shown
    /\ steps < MaxSteps
    /\ steps' = steps + 1
    /\ last' = [op |-> "release", amount |-> 0, anchor |-> None, ok |-> FALSE,
                binding |-> binding]
    /\ mouse_previous_pos' = None
    /\ mouse_initial_pos' = None
    /\ state' = IF binding = "pan" THEN state \ {panState}
                ELSE IF binding = "zoom" THEN state \ {zoomState}
                ELSE state
    /\ UNCHANGED <<zoom, sceneRect, m11, viewportSize, item_image, shown>>
    /\ UNCHANGED viewport_vars

\* mouseReleaseEvent; binding is the shortcut whose button is released
mouseReleaseEvent(binding) ==
    /\ shown
    /\ steps < MaxSteps
    /\ steps' = steps + 1
    /\ last' = [op |-> "release", amount |-> 0, anchor |-> None, ok |-> FALSE,
                binding |-> binding]
    /\ mouse_previous_pos' = None
    /\ mouse_initial_pos' = None
    /\ state' = (state \ {panState}) \ {zoomState}
    /\ UNCHANGED <<zoom, sceneRect, m11, viewportSize, item_image, shown>>
    /\ UNCHANGED viewport_vars

set_image_from_array(array) ==
    /\ steps < MaxSteps
    /\ steps' = steps + 1
    /\ last' = [op |-> "set_image", amount |-> 0, anchor |-> None, ok |-> FALSE,
                array |-> array]
    /\ \E result \in {SetImageFromArray(Viewport, array)} :
           /\ SetViewport(result.s)
           /\ returned' = result.returned

clear_image ==
    /\ Step("clear_image", 0, None, FALSE)
    /\ \E s \in {ClearImage(Viewport)} : SetViewport(s)
    /\ returned' = ReturnsNone

rotate_image_90(angle, add_existing) ==
    /\ steps < MaxSteps
    /\ steps' = steps + 1
    /\ last' = [op |-> "rotate_image_90", angle |-> angle, add_existing |-> add_existing]
    /\ \E result \in {RotateImage90(Viewport, angle, add_existing)} :
           /\ SetViewport(result.s)
           /\ returned' = result.returned

\* a call of add_plugin by the host
AddPlugin(plugin) ==
    /\ steps < MaxSteps
    /\ steps' = steps + 1
    /\ last' = [op |-> "add_plugin", plugin |-> plugin]
    /\ \E s \in {add_plugin(Viewport, plugin)} : SetViewport(s)
    /\ returned' = ReturnsNone

\* a call of get_color_picked_area by the host
GetColorPickedArea ==
    /\ Step("get_color_picked_area", 0, None, FALSE)
    /\ returned' = get_color_picked_area(picker)
    /\ UNCHANGED <<navigation_vars, sceneRect, item_image, image_array, rotation_angle,
                   item_visible, plugins, view_plugins, picker, grid, log, transforms,
                   QT6>>

\* LqtImageViewport.eventFilter for an event of the scene
eventFilter(event) ==
    /\ steps < MaxSteps
    /\ steps' = steps + 1
    /\ last' = [op |-> "eventFilter", event |-> event]
    /\ \E s \in {SceneEvent(Viewport, event, 1)} : SetViewport(s)
    /\ returned' = ReturnsNone

\* The mouse events Qt delivers to the color picker item: a press on the
\* item when it is visible, then the moves and the release.
picker_mousePressEvent(event) ==
    /\ picker.visible
    /\ steps < MaxSteps
    /\ steps' = steps + 1
    /\ last' = [op |-> "picker_mousePressEvent", event |-> event]
    /\ \E s \in {picker_mousePress(Viewport, event)} : SetViewport(s)
    /\ returned' = ReturnsNone

picker_mouseMoveEvent(event) ==
    /\ picker.visible
    /\ steps < MaxSteps
    /\ steps' = steps + 1
    /\ last' = [op |-> "picker_mouseMoveEvent", event |-> event]
    /\ \E s \in {picker_mouseMove(Viewport, event)} : SetViewport(s)
    /\ returned' = ReturnsNone

picker_mouseReleaseEvent(event) ==
    /\ picker.visible
    /\ steps < MaxSteps
    /\ steps' = steps + 1
    /\ last' = [op |-> "picker_mouseReleaseEvent", event |-> event]
    /\ \E s \in {picker_mouseRelease(Viewport, event)} : SetViewport(s)
    /\ returned' = ReturnsNone

----------------------------------------------------------------------------
(* The specifications *)

\* The state after LqtImageViewport.__init__: the scene (-640, -360, 1280,
\* 720) built and centered on the image by LIVGraphicView.__init__, the two
\* plugins of the viewport added, the image item visible or not.
Constructed(visible, qt6) ==
    /\ zoom = One
    /\ item_image = default_image
    /\ sceneRect = moveCenter([x |-> F(-640), y |-> F(-360), w |-> F(1280), h |-> F(720)],
                              center([x |-> 0, y |-> 0, w |-> F(item_image[1]),
                                      h |-> F(item_image[2])]))
    /\ m11 = One
    /\ viewportSize = initial_size
    /\ state = {noneState}
    /\ mouse_previous_pos = None
    /\ mouse_initial_pos = None
    /\ shown = FALSE
    /\ steps = 0
    /\ image_array = None
    /\ rotation_angle = 0
    /\ item_visible = visible
    /\ returned = ReturnsNone
    /\ \E s \in {add_plugin(add_plugin([plugins |-> <<>>, view_plugins |-> <<>>],
                                      plugins_coord),
                           plugin_color_picker)} :
           /\ plugins = s.plugins
           /\ view_plugins = s.view_plugins
    /\ picker = ColorPickerPlugin
    /\ grid = CoordinatesGridPlugin
    /\ log = <<>>
    /\ transforms = [plugin \in {plugins_coord, plugin_color_picker, "host_plugin"}
                         |-> QTransform]
    /\ QT6 = qt6

Init ==
    /\ Constructed(default_image_visible, TRUE)
    /\ last = [op |-> "init", amount |-> 0, anchor |-> None, ok |-> FALSE]

Next ==
    \/ \E size \in Sizes : resizeEvent(size)
    \/ \E delta \in WheelDeltas, p \in Points : wheelEvent(delta, p)
    \/ \E p \in Points : keyPressResetZoom(p)
    \/ keyPressResetPan
    \/ \E binding \in {"pan", "zoom", "other"}, p \in Points : mousePressEvent(binding, p)
    \/ \E p \in Points : mouseMoveEvent(p)
    \/ \E binding \in {"pan", "zoom", "other"} : mouseReleaseEvent(binding)
    \/ \E array \in Arrays : set_image_from_array(array)

Spec == Init /\ [][Next]_vars

\* The viewport as its host drives it: created with the image item shown or
\* hidden, then given images, cleared, rotated, given plugins and asked for
\* the picked area, while the user picks and unpicks.
ViewportInit ==
    /\ \E visible \in BOOLEAN : Constructed(visible, TRUE)
    /\ last = [op |-> "init", amount |-> 0, anchor |-> None, ok |-> FALSE]

\* a scene position, given in quarters of a pixel
Quarters(x, y) == <<x * (Scale \div 4), y * (Scale \div 4)>>

\* pick, pick_area_start, pick_area_expand and unpick as the user makes them
PickPress(scenePos) ==
    MouseEvent("QGraphicsSceneMouseEvent", "GraphicsSceneMousePress", "LeftButton",
               ControlModifier, scenePos, <<0, 0>>)
AreaPress(scenePos) ==
    MouseEvent("QGraphicsSceneMouseEvent", "GraphicsSceneMousePress", "LeftButton",
               ControlModifier \cup ShiftModifier, scenePos, <<0, 0>>)
ExpandMove(scenePos) ==
    MouseEvent("QGraphicsSceneMouseEvent", "GraphicsSceneMouseMove", "NoButton",
               ControlModifier \cup ShiftModifier, scenePos, <<0, 0>>)
UnpickPress(scenePos) ==
    MouseEvent("QGraphicsSceneMouseEvent", "GraphicsSceneMousePress", "RightButton",
               ControlModifier, scenePos, <<0, 0>>)

ViewportEvents == {PickPress(Quarters(22, 21)), UnpickPress(Quarters(22, 21))}

HostPlugins == {plugins_coord, plugin_color_picker, "host_plugin"}

ViewportNext ==
    \/ \E array \in Arrays \cup OtherArrays \cup ShapedArrays : set_image_from_array(array)
    \/ clear_image
    \/ \E angle \in Angles, add_existing \in BOOLEAN : rotate_image_90(angle, add_existing)
    \/ \E plugin \in HostPlugins : AddPlugin(plugin)
    \/ GetColorPickedArea
    \/ \E event \in ViewportEvents : eventFilter(event)

ViewportSpec == ViewportInit /\ [][ViewportNext]_vars

\* The color picker as the user drives it, under either Qt: the view is
\* resized and zoomed, an image set and cleared, and the mouse pressed and
\* moved over the scene and over the picker.
PickerInit ==
    /\ \E qt6 \in BOOLEAN : Constructed(default_image_visible, qt6)
    /\ last = [op |-> "init", amount |-> 0, anchor |-> None, ok |-> FALSE]

\* positions of the scene: four pixels around (5, 5), the right edge of an
\* image 100 wide, and two positions outside every image
PickPoints ==
    {Quarters(22, 21), Quarters(11, 30), Quarters(18, 22), Quarters(33, 12),
     Quarters(400, 80), Quarters(2402, 80), Quarters(-2, 12)}

PickerEvents ==
    {PickPress(p) : p \in PickPoints} \cup {ExpandMove(p) : p \in PickPoints}
    \cup {AreaPress(Quarters(22, 21)), UnpickPress(Quarters(22, 21)),
          MouseEvent("QGraphicsSceneMouseEvent", "GraphicsSceneMousePress",
                     "LeftButton", NoModifier, Quarters(22, 21), <<0, 0>>),
          KeyEvent("KeyPress", "Key_Alt", ShiftModifier \cup AltModifier),
          KeyEvent("KeyRelease", "Key_Alt", ShiftModifier)}

\* the mouse over the picker item: presses on its center and off it, moves
ItemPresses ==
    {MouseEvent("QGraphicsSceneMouseEvent", "GraphicsSceneMousePress", "LeftButton",
                NoModifier, Quarters(22, 21), pos) : pos \in {<<0, 0>>, <<F(20), 0>>}}
ItemMoves ==
    {MouseEvent("QGraphicsSceneMouseEvent", "GraphicsSceneMouseMove", "NoButton",
                NoModifier, p, <<0, 0>>) :
         p \in {Quarters(33, 12), Quarters(11, 30), Quarters(2402, 80)}}

\* one step fewer than elsewhere: there are many events to choose from
PickerNext ==
    /\ steps + 1 < MaxSteps
    /\ \/ \E size \in Sizes : resizeEvent(size)
       \/ \E p \in {<<13, 2>>} : wheelEvent(120, p)
       \/ \E array \in {a \in Arrays : a.shape = <<50, 100, 4>>} : set_image_from_array(array)
       \/ clear_image
       \/ GetColorPickedArea
       \/ \E event \in PickerEvents : eventFilter(event)
       \/ \E event \in ItemPresses : picker_mousePressEvent(event)
       \/ \E event \in ItemMoves : picker_mouseMoveEvent(event)
       \/ \E event \in ItemMoves : picker_mouseReleaseEvent(event)

PickerSpec == PickerInit /\ [][PickerNext]_vars

\* The shortcuts and the events match_event is tried on
Shortcuts ==
    {LIVKeyShortcut(key, modifiers, modifier_matching) :
         key \in {"Key_F", "LeftButton", "NoButton"},
         modifiers \in {NoModifiers, Modifiers(<<>>), Modifiers(<<ControlModifier>>),
                        Modifiers(<<ControlModifier, ShiftModifier>>),
                        Modifiers(<<NoModifier>>)},
         modifier_matching \in {"exact", "contains_all", "contains_any"}}

ModifierSets == SUBSET {"Shift", "Control", "Alt"}

Events ==
    {KeyEvent("KeyPress", key, modifiers) :
         key \in {"Key_F", "Key_Q"}, modifiers \in ModifierSets}
    \cup {MouseEvent(class, "MousePress", button, modifiers, <<0, 0>>, <<0, 0>>) :
              class \in {"QMouseEvent", "QGraphicsSceneMouseEvent"},
              button \in {"LeftButton", "MiddleButton", "NoButton"},
              modifiers \in ModifierSets}
    \cup {OtherEvent("Wheel", modifiers) : modifiers \in {NoModifier, ControlModifier}}

\* the default table, and one whose pick ignores the modifiers
Tables ==
    {get_default,
     [get_default EXCEPT !.pick = LIVKeyShortcut("LeftButton", NoModifiers, "exact")]}

\* The shortcut matcher on its own: a shortcut, a table and an event are
\* drawn, then match_event or get_event_matching_shortcut is called on them.
ShortcutInit ==
    /\ Constructed(default_image_visible, TRUE)
    /\ \E shortcut \in Shortcuts, table \in Tables, event \in Events :
           last = [op |-> "input", shortcut |-> shortcut, table |-> table,
                   event |-> event]

MatchEvent ==
    /\ last.op = "input"
    /\ last' = [last EXCEPT !.op = "match_event"]
    /\ steps' = steps + 1
    /\ returned' = Returns(match_event(last.shortcut, last.event, "None"))
    /\ UNCHANGED <<navigation_vars, sceneRect, item_image, image_array, rotation_angle,
                   item_visible, plugins, view_plugins, picker, grid, log, transforms,
                   QT6>>

GetEventMatchingShortcut ==
    /\ last.op = "input"
    /\ last' = [last EXCEPT !.op = "get_event_matching_shortcut"]
    /\ steps' = steps + 1
    /\ returned' = get_event_matching_shortcut(last.table, last.event)
    /\ UNCHANGED <<navigation_vars, sceneRect, item_image, image_array, rotation_angle,
                   item_visible, plugins, view_plugins, picker, grid, log, transforms,
                   QT6>>

ShortcutNext == MatchEvent \/ GetEventMatchingShortcut

ShortcutSpec == ShortcutInit /\ [][ShortcutNext]_vars

\* The keys of the modifiers, and Qt.Key of each
ModifierKeys == {"Shift", "Alt", "Control"}
KeyOf(modifier) ==
    CASE modifier = "Shift" -> "Key_Shift"
      [] modifier = "Alt" -> "Key_Alt"
      [] modifier = "Control" -> "Key_Control"

\* The keyboard and the mouse over the scene: no key is held at first;
\* last.modifiers holds the modifiers held after the last event, which is
\* what QKeyEvent.modifiers() gives for the press and the release of a
\* modifier key.
KeyInit ==
    /\ Constructed(default_image_visible, TRUE)
    /\ last = [op |-> "init", key |-> "", modifiers |-> {}]

\* eventFilter for the press of a modifier key that was not held
scene_keyPressEvent(modifier) ==
    /\ modifier \notin last.modifiers
    /\ steps < MaxSteps
    /\ steps' = steps + 1
    /\ last' = [op |-> "key_press", key |-> modifier,
                modifiers |-> last.modifiers \cup {modifier}]
    /\ \E event \in {KeyEvent("KeyPress", KeyOf(modifier),
                                last.modifiers \cup {modifier})} :
       \E s \in {SceneEvent(Viewport, event, 1)} : SetViewport(s)
    /\ returned' = ReturnsNone

\* eventFilter for the release of a modifier key that was held
scene_keyReleaseEvent(modifier) ==
    /\ modifier \in last.modifiers
    /\ steps < MaxSteps
    /\ steps' = steps + 1
    /\ last' = [op |-> "key_release", key |-> modifier,
                modifiers |-> last.modifiers \ {modifier}]
    /\ \E event \in {KeyEvent("KeyRelease", KeyOf(modifier),
                                last.modifiers \ {modifier})} :
       \E s \in {SceneEvent(Viewport, event, 1)} : SetViewport(s)
    /\ returned' = ReturnsNone

\* eventFilter for a press of a button of the mouse over the scene, with
\* the modifiers that are held
scene_mousePressEvent(button, scenePos) ==
    /\ steps < MaxSteps
    /\ steps' = steps + 1
    /\ last' = [op |-> "mouse_press", key |-> button, modifiers |-> last.modifiers]
    /\ \E event \in {MouseEvent("QGraphicsSceneMouseEvent", "GraphicsSceneMousePress",
                                  button, last.modifiers, scenePos, <<0, 0>>)} :
       \E s \in {SceneEvent(Viewport, event, 1)} : SetViewport(s)
    /\ returned' = ReturnsNone

KeyNext ==
    \/ \E modifier \in ModifierKeys : scene_keyPressEvent(modifier)
    \/ \E modifier \in ModifierKeys : scene_keyReleaseEvent(modifier)
    \/ \E button \in {"LeftButton", "RightButton"},
          scenePos \in {Quarters(22, 21), Quarters(33, 12)} :
           scene_mousePressEvent(button, scenePos)

KeySpec == KeyInit /\ [][KeyNext]_vars

\* _generate_point_grid for a surface <<0, 0, width, height>>: the points
\* of the grid, one column after the other, or the exception raised
generate_point_grid(surface, tiles_number) ==
    IF tiles_number = 0 THEN Raises("ZeroDivisionError")
    ELSE LET block_width == FDiv(F(surface[1]), F(tiles_number))
             block_height == FDiv(F(surface[2]), F(tiles_number))
             \* range(tiles_number + 1)
             count == IF tiles_number + 1 > 0 THEN tiles_number + 1 ELSE 0
             h_coordinates ==
                 [i \in 1..count |-> F(int(FAdd(FMul(block_width, F(i - 1)), Half)))]
             v_coordinates ==
                 [i \in 1..count |-> F(int(FAdd(FMul(block_height, F(i - 1)), Half)))]
         IN  Returns([k \in 1..(count * count) |->
                          <<h_coordinates[((k - 1) \div count) + 1],
                            v_coordinates[((k - 1) % count) + 1]>>])

\* _draw_coordinates_grid reads screenspace_grid[0] and screenspace_grid[1]
draw_coordinates_grid(screenspace_grid) ==
    IF Len(screenspace_grid) < 2 THEN Raises("IndexError")
    ELSE Returns(screenspace_grid)

\* QGraphicsSceneWheelEvent.delta() of a notch of the wheel either way
GridDeltas == {-120, 120}

\* Steps of the grid explored: the two keys that show it, then the wheel
GridSteps == MaxSteps + 5

\* CoordinatesGridPlugin.wheelEvent; Qt delivers the events of the wheel to
\* a visible item only
grid_wheelEvent(delta) ==
    /\ grid.visible
    /\ steps < GridSteps
    /\ steps' = steps + 1
    /\ last' = [op |-> "grid_wheel", key |-> "", modifiers |-> last.modifiers,
                delta |-> delta]
    /\ grid' = [grid EXCEPT !.tiles_number = IF delta > 0 THEN @ + 1 ELSE @ - 1]
    /\ returned' = ReturnsNone
    /\ UNCHANGED <<navigation_vars, sceneRect, item_image, image_array, rotation_angle,
                   item_visible, plugins, view_plugins, picker, log, transforms, QT6>>

\* CoordinatesGridPlugin.paint, which Qt calls for the visible grid after
\* update(): the grid drawn, or the exception raised
grid_paint ==
    /\ grid.visible
    /\ steps < GridSteps
    /\ steps' = steps + 1
    /\ last' = [op |-> "grid_paint", key |-> "", modifiers |-> last.modifiers]
    /\ \E generated \in {generate_point_grid(grid.rect, grid.tiles_number)} :
           returned' = IF generated.kind # "value" THEN generated
                       ELSE draw_coordinates_grid(generated.value)
    /\ UNCHANGED <<navigation_vars, sceneRect, item_image, image_array, rotation_angle,
                   item_visible, plugins, view_plugins, picker, grid, log, transforms,
                   QT6>>

GridNext ==
    \/ \E modifier \in {"Shift", "Alt"} : scene_keyPressEvent(modifier)
    \/ \E modifier \in {"Shift", "Alt"} : scene_keyReleaseEvent(modifier)
    \/ \E delta \in GridDeltas : grid_wheelEvent(delta)
    \/ grid_paint

GridSpec == KeyInit /\ [][GridNext]_vars

\* Transforms made of a scale that is not 0 and of a translation: the
\* identity, the limits of the zoom of the view, a third, a scale that
\* differs on the two axes and one that turns the rectangles over.
Transforms ==
    {[m11 |-> s[1], m22 |-> s[2], dx |-> d[1], dy |-> d[2]] :
         s \in {<<One, One>>, <<zoom_min, zoom_min>>, <<zoom_max, zoom_max>>,
                <<FDiv(One, F(3)), FDiv(One, F(3))>>, <<F(3), FDiv(F(7), F(5))>>,
                <<F(-2), FDiv(F(-1), F(3))>>},
         d \in {<<0, 0>>, <<F(7), F(-3)>>, <<FDiv(F(-100), F(3)), FDiv(F(1), F(7))>>}}

\* QRectF of a positive or null size
Rects ==
    {[x |-> 0, y |-> 0, w |-> F(100), h |-> F(50)],
     [x |-> FDiv(F(-7), F(2)), y |-> FDiv(F(1), F(3)), w |-> FDiv(F(1), F(10)), h |-> F(7)],
     [x |-> F(16), y |-> F(-9), w |-> F(32), h |-> 0],
     [x |-> FDiv(F(100), F(7)), y |-> FDiv(F(200), F(3)), w |-> FDiv(F(22), F(7)),
      h |-> FDiv(F(1), F(100))]}

\* The transform setter of a plugin of the host
transform_setter(new_transform) ==
    /\ steps < MaxSteps
    /\ steps' = steps + 1
    /\ last' = [op |-> "transform", rect |-> None]
    /\ transforms' = [transforms EXCEPT !["host_plugin"] = new_transform]
    /\ UNCHANGED <<navigation_vars, sceneRect, item_image, image_array, rotation_angle,
                   item_visible, returned, plugins, view_plugins, picker, grid, log,
                   QT6>>

\* plugin.map_to_screenspace(plugin.map_from_screenspace(rect))
MapFromThenTo(rect) ==
    /\ steps < MaxSteps
    /\ steps' = steps + 1
    /\ last' = [op |-> "from_to", rect |-> rect]
    /\ returned' = Returns(map_rect_to_screenspace(
                               transforms["host_plugin"],
                               map_from_screenspace(transforms["host_plugin"], rect)))
    /\ UNCHANGED <<navigation_vars, sceneRect, item_image, image_array, rotation_angle,
                   item_visible, plugins, view_plugins, picker, grid, log, transforms,
                   QT6>>

\* plugin.map_from_screenspace(plugin.map_to_screenspace(rect))
MapToThenFrom(rect) ==
    /\ steps < MaxSteps
    /\ steps' = steps + 1
    /\ last' = [op |-> "to_from", rect |-> rect]
    /\ returned' = Returns(map_from_screenspace(
                               transforms["host_plugin"],
                               map_rect_to_screenspace(transforms["host_plugin"], rect)))
    /\ UNCHANGED <<navigation_vars, sceneRect, item_image, image_array, rotation_angle,
                   item_visible, plugins, view_plugins, picker, grid, log, transforms,
                   QT6>>

\* The coordinate mappings of a plugin on their own: the plugin is given
\* transforms and maps rectangles there and back.
TransformNext ==
    \/ \E new_transform \in Transforms : transform_setter(new_transform)
    \/ \E rect \in Rects : MapFromThenTo(rect)
    \/ \E rect \in Rects : MapToThenFrom(rect)

TransformSpec == Init /\ [][TransformNext]_vars

\* Sizes of a viewport with nothing to show: no width and no height, no
\* width only, and the size of an invalid QSize
MalformedSizes == {<<0, 0>>, <<0, 12>>, <<-1, -1>>}

\* The gestures of the mouse on a view that is shown and zoomed: the state
\* after the construction, the first resize event, one notch of the wheel
\* at the top-left corner of the viewport and a second wheel event, then
\* presses, moves and releases, and resize events of a viewport with
\* nothing to show.
GestureInit ==
    \E size \in Sizes, delta \in WheelDeltas, p \in Points :
    \E first \in {OnGrid(RoundSig(Pow2Milli(-120), GridBits - 20))} :
    \E second \in {OnGrid(RoundSig(Pow2Milli(delta), GridBits - 20))} :
    \E v0 \in {[zoom |-> One, m11 |-> One, size |-> initial_size,
                 rect |-> moveCenter([x |-> F(-640), y |-> F(-360),
                                      w |-> F(1280), h |-> F(720)],
                                     center([x |-> 0, y |-> 0,
                                             w |-> F(default_image[1]),
                                             h |-> F(default_image[2])]))]} :
    \E v1 \in {update_scene_rect([v0 EXCEPT !.size = size])} :
    \E v2 \in {zoom_viewport(v1, first, ToGlobal(<<0, 0>>))} :
    \E v3 \in {zoom_viewport(v2, second, ToGlobal(p))} :
    \E s0 \in {[image_array |-> None, item_image |-> default_image,
                 item_visible |-> default_image_visible, rect |-> v3.rect,
                 rotation_angle |-> 0,
                 plugins |-> <<plugins_coord, plugin_color_picker>>,
                 view_plugins |-> <<plugins_coord, plugin_color_picker>>,
                 picker |-> ColorPickerPlugin, grid |-> CoordinatesGridPlugin,
                 transforms |-> [plugin \in {plugins_coord, plugin_color_picker,
                                             "host_plugin"} |-> QTransform],
                 log |-> <<>>]} :
    \E s1 \in {update_plugins(s0, scale(QTransform, v3.m11, v3.m11), 1)} :
        /\ zoom = v3.zoom
        /\ sceneRect = v3.rect
        /\ m11 = v3.m11
        /\ viewportSize = v3.size
        /\ item_image = default_image
        /\ state = {noneState}
        /\ mouse_previous_pos = None
        /\ mouse_initial_pos = None
        /\ shown = TRUE
        /\ steps = 0
        /\ last = [op |-> "init", amount |-> 0, anchor |-> None, ok |-> FALSE]
        /\ image_array = None
        /\ rotation_angle = 0
        /\ item_visible = default_image_visible
        /\ returned = ReturnsNone
        /\ plugins = s1.plugins
        /\ view_plugins = s1.view_plugins
        /\ picker = s1.picker
        /\ grid = s1.grid
        /\ log = s1.log
        /\ transforms = s1.transforms
        /\ QT6 = TRUE

GestureNext ==
    \/ \E size \in MalformedSizes : resizeEvent(size)
    \/ \E binding \in {"pan", "zoom", "other"}, p \in Points : mousePressEvent(binding, p)
    \/ \E p \in Points : mouseMoveEvent(p)
    \/ \E binding \in {"pan", "zoom"} : mouseReleaseEvent(binding)

GestureSpec == GestureInit /\ [][GestureNext]_vars

\* angleDelta().y() of a wheel event: a notch either way, and none
WheelNotches == {-120, 0, 120}

\* The wheel turned while the buttons of the mouse are pressed and released
\* on a view that is shown and zoomed.
WheelNext ==
    \/ \E delta \in WheelNotches, p \in Points : wheelEvent(delta, p)
    \/ \E binding \in {"pan", "zoom"} : mousePressEvent(binding, <<0, 0>>)
    \/ mouseReleaseEvent("pan")

WheelSpec == GestureInit /\ [][WheelNext]_vars

----------------------------------------------------------------------------
(* The background of the view: config/_backgroundstyle.py and               *)
(* LIVGraphicView.drawBackground                                            *)

\* An Optional[float]: None, or <<v>> for the float v
Some(v) == <<v>>

\* the literal 0.3
ThreeTenths == FDiv(F(3), F(10))

\* BaseBackgroundStyle.__init__; the colors play no part in the model
BaseBackgroundStyle(label, use_background_texture, texture_zoom_range) ==
    [label |-> label, use_background_texture |-> use_background_texture,
     texture_zoom_range |-> texture_zoom_range]

\* the default texture_zoom_range, (0.3, None)
default_texture_zoom_range == <<Some(ThreeTenths), None>>

\* BaseBackgroundStyle.should_use_background_texture
should_use_background_texture(style, zoom_) ==
    LET texture_zoom_min == style.texture_zoom_range[1]
        texture_zoom_max == style.texture_zoom_range[2]
        draw_texture1 == style.use_background_texture
        draw_texture2 ==
            IF /\ texture_zoom_min # None
               /\ zoom_ # None
               /\ zoom_[1] < texture_zoom_min[1]
            THEN FALSE ELSE draw_texture1
    IN  IF /\ texture_zoom_max # None
           /\ zoom_ # None
           /\ zoom_[1] > texture_zoom_max[1]
        THEN FALSE ELSE draw_texture2

\* BackgroundStyle.value.draw_grid of the style of the view: the texture
\* toggle of the style
draw_grid(style) == style.use_background_texture

\* LIVGraphicView.drawBackground: the brush that fills the background is the
\* cached texture, not the primary color
drawBackground_brush_is_texture(style, zoom_) ==
    zoom_ > ThreeTenths /\ draw_grid(style)

\* The styles drawn: the texture on or off, a range with and without each
\* of its bounds, down to the range of the one zoom 1.0
BackgroundStyles ==
    {BaseBackgroundStyle("Style", use_background_texture, <<lower, upper>>) :
         use_background_texture \in BOOLEAN,
         lower \in {None, Some(ThreeTenths), Some(One)},
         upper \in {None, Some(One), Some(F(2))}}

\* Zooms of the view, within its limits: the bounds of the ranges, the
\* float on either side of 0.3 and of 2.0, and the limits.  The view reaches
\* 0.3 from 1.0 by a zoom drag of -88 pixels, (1 - 0.88), and one of 150,
\* (1 + 1.5): 0.12 * 2.5 is 0.3 in floats.
BackgroundZooms ==
    {zoom_min, ThreeTenths - Ulp(ThreeTenths), ThreeTenths,
     ThreeTenths + Ulp(ThreeTenths), One, F(2), F(2) + Ulp(F(2)), zoom_max}

\* A style and a zoom are drawn; the zoom is absent for the call of
\* should_use_background_texture without its argument.
BackgroundInit ==
    /\ Constructed(default_image_visible, TRUE)
    /\ \E style \in BackgroundStyles,
          zoom_ \in {None} \cup {Some(z) : z \in BackgroundZooms} :
           last = [op |-> "input", style |-> style, zoom |-> zoom_]

\* style.should_use_background_texture(zoom)
ShouldUseBackgroundTexture ==
    /\ last.op = "input"
    /\ last' = [last EXCEPT !.op = "should_use_background_texture"]
    /\ steps' = steps + 1
    /\ returned' = Returns(should_use_background_texture(last.style, last.zoom))
    /\ UNCHANGED <<navigation_vars, sceneRect, item_image, image_array, rotation_angle,
                   item_visible, plugins, view_plugins, picker, grid, log, transforms,
                   QT6>>

\* A paint event of the view whose style and zoom are the ones drawn:
\* whether the background is filled with the texture
drawBackground ==
    /\ last.op = "input"
    /\ last.zoom # None
    /\ last' = [last EXCEPT !.op = "drawBackground"]
    /\ steps' = steps + 1
    /\ returned' = Returns(drawBackground_brush_is_texture(last.style, last.zoom[1]))
    /\ UNCHANGED <<navigation_vars, sceneRect, item_image, image_array, rotation_angle,
                   item_visible, plugins, view_plugins, picker, grid, log, transforms,
                   QT6>>

BackgroundNext == ShouldUseBackgroundTexture \/ drawBackground

BackgroundSpec == BackgroundInit /\ [][BackgroundNext]_vars

\* BackgroundStyleLibrary: the built-in styles, in the order of all()
built_in_styles ==
    <<BaseBackgroundStyle("Light", TRUE, default_texture_zoom_range),
      BaseBackgroundStyle("Light Grid of Dots", TRUE, default_texture_zoom_range),
      BaseBackgroundStyle("Mid Grey", TRUE, default_texture_zoom_range),
      BaseBackgroundStyle("Black", TRUE, default_texture_zoom_range),
      BaseBackgroundStyle("Black Grid of Dots", TRUE, default_texture_zoom_range),
      BaseBackgroundStyle("Dark Grid of Dots", TRUE, default_texture_zoom_range)>>

\* BackgroundStyleLibrary.dark_grid_dot, the style of a new view
dark_grid_dot == built_in_styles[6]

\* BackgroundStyleLibrary.all
all(customs) == built_in_styles \o customs

\* list.index: the place of the first entry equal to x, counted from 0
index(list, x) ==
    CHOOSE i \in 0..(Len(list) - 1) :
        /\ list[i + 1] = x
        /\ \A j \in 0..(i - 1) : list[j + 1] # x

\* BackgroundStyleLibrary.next, for a style of the library
next(customs, style) ==
    LET all_styles == all(customs)
        i == index(all_styles, style)
    IN  IF i + 1 < Len(all_styles) THEN all_styles[i + 2] ELSE all_styles[1]

\* BackgroundStyleLibrary.add_custom_style: the new value of customs
add_custom_style(customs, new_style) ==
    IF \E i \in DOMAIN customs : customs[i] = new_style THEN customs
    ELSE Append(customs, new_style)

\* The styles an application adds: three of its own, one of them without
\* texture, and two of the built-in ones
NewStyles ==
    {BaseBackgroundStyle("Custom 1", TRUE, default_texture_zoom_range),
     BaseBackgroundStyle("Custom 2", FALSE, default_texture_zoom_range),
     BaseBackgroundStyle("Custom 3", TRUE, <<None, Some(One)>>),
     built_in_styles[1], dark_grid_dot}

\* A new view and the library as it is when the module is imported:
\* last.customs is BackgroundStyleLibrary.customs and last.style the
\* _background_style of the view.
LibraryInit ==
    /\ Constructed(default_image_visible, TRUE)
    /\ last = [op |-> "init", customs |-> <<>>, style |-> dark_grid_dot]

\* BackgroundStyleLibrary.add_custom_style(new_style)
AddCustomStyle(new_style) ==
    /\ steps < MaxSteps + 2
    /\ steps' = steps + 1
    /\ last' = [op |-> "add_custom_style",
                customs |-> add_custom_style(last.customs, new_style),
                style |-> last.style]
    /\ returned' = ReturnsNone
    /\ UNCHANGED <<navigation_vars, sceneRect, item_image, image_array, rotation_angle,
                   item_visible, plugins, view_plugins, picker, grid, log, transforms,
                   QT6>>

\* keyPressEvent for the change_background shortcut
keyPressChangeBackground ==
    /\ steps < MaxSteps + 2
    /\ steps' = steps + 1
    /\ last' = [op |-> "change_background", customs |-> last.customs,
                style |-> next(last.customs, last.style)]
    /\ returned' = ReturnsNone
    /\ UNCHANGED <<navigation_vars, sceneRect, item_image, image_array, rotation_angle,
                   item_visible, plugins, view_plugins, picker, grid, log, transforms,
                   QT6>>

LibraryNext ==
    \/ \E new_style \in NewStyles : AddCustomStyle(new_style)
    \/ keyPressChangeBackground

LibrarySpec == LibraryInit /\ [][LibraryNext]_vars

----------------------------------------------------------------------------
(* Properties of the navigable view *)

TypeOK ==
    /\ zoom \in Int
    /\ state \subseteq {noneState, panState, zoomState}

\* The handler that ran last made a _zoom_viewport call.
ZoomRequested == last.op \in {"wheel", "reset_zoom"} \/ (last.op = "move" /\ last.anchor # None)

\* C1: in every state reached from zoom = 1.0 by wheel, drag, reset_zoom,
\* pan, reset_pan and resize events, zoom_min <= zoom <= zoom_max.
C1_ZoomWithinLimits == zoom_min <= zoom /\ zoom <= zoom_max

\* A wheel event asking for 16 * 16 has been refused at zoom 16.
C1_Witness == last.op = "wheel" /\ ~last.ok /\ last.amount = F(16) /\ zoom = F(16)

\* C2: a handler whose _zoom_viewport request has its product zoom * amount
\* outside [zoom_min, zoom_max] leaves zoom, the scene rectangle (position
\* and size) and the transform as they were.  (A drag that pans before it
\* zooms moves the rectangle by its pan, so it is left out.)
C2_OutOfRangeIsNoOp ==
    [][(ZoomRequested' /\ ~last'.ok /\ panState \notin state)
         => (zoom' = zoom /\ sceneRect' = sceneRect /\ m11' = m11)]_vars

\* zoom 1.0 asked to go to 0.0625, below zoom_min: still 1.0
C2_Witness ==
    /\ last.op = "wheel" /\ ~last.ok
    /\ zoom = One /\ last.amount = F(1) \div 16
    /\ FMul(zoom, last.amount) < zoom_min

\* C3: after any sequence of zoom operations the stored zoom is a value
\* rounded to a decimal precision, round(zoom * amount, precision); the
\* precisions tried are zero, one and two decimal places.
C3_ZoomIsRounded == \E n \in 0 .. 2 : zoom = py_round(zoom, n)

\* Largest element of a non-empty set of numbers
Largest(S) == CHOOSE m \in S : \A n \in S : n <= m

\* Largest coordinate magnitude of a view's scene rectangle
Magnitude(v) == Largest({Abs(v.rect.x), Abs(v.rect.y), v.rect.w, v.rect.h})

\* a and b differ by at most k units in the last place of a float as large
\* as ref
Near(a, b, ref, k) == Abs(a - b) <= k * Ulp(ref)

\* viewport size / zoom - 0.5, the size _update_scene_rect gives the rectangle
ZoomedSize(i) == FSub(FDiv(F(viewportSize[i]), zoom), Half)

\* The largest size the rectangle can take: viewport size / zoom_min
WorldSpan(i) == FDiv(F(viewportSize[i]), zoom_min)

\* The view in the next state
ViewAfter == [zoom |-> zoom', rect |-> sceneRect', m11 |-> m11', size |-> viewportSize']

\* C4 as stated: in every reachable state the scene rectangle is
\* viewport width / zoom - 0.5 wide and viewport height / zoom - 0.5 high.
C4_SizeFollowsZoom ==
    sceneRect.w = ZoomedSize(1) /\ sceneRect.h = ZoomedSize(2)

\* C4 amended: once the view has had a resize event, the width and height
\* of the scene rectangle are viewport size / zoom - 0.5 up to the rounding
\* of the pans: at most one unit in the last place of the largest size the
\* rectangle can take, for each handler run.
C4_SizeFollowsZoomRounded ==
    shown => /\ Near(sceneRect.w, ZoomedSize(1), WorldSpan(1), steps)
             /\ Near(sceneRect.h, ZoomedSize(2), WorldSpan(2), steps)

\* An accepted zoom, after its pan, has left the width one rounding away
\* from viewport width / zoom - 0.5.
C4_Witness ==
    /\ shown /\ last.ok /\ sceneRect.w # ZoomedSize(1)
    /\ Near(sceneRect.w, ZoomedSize(1), WorldSpan(1), 1)

\* C5 as stated: an accepted _zoom_viewport leaves the scene position under
\* its anchor equal to the one captured before the rectangle and the
\* transform changed.
C5_AnchorFixed ==
    [][(last'.ok /\ panState \notin state)
         => mapToScene(ViewAfter, mapFromGlobal(last'.anchor))
              = mapToScene(View, mapFromGlobal(last'.anchor))]_vars

\* C5 amended: the scene position under the anchor after an accepted
\* _zoom_viewport is the captured one up to rounding, two units in the
\* last place of the coordinates of the rectangles.
C5_AnchorFixedRounded ==
    [][(last'.ok /\ panState \notin state)
         => \A before \in {mapToScene(View, mapFromGlobal(last'.anchor))} :
            \A after \in {mapToScene(ViewAfter, mapFromGlobal(last'.anchor))} :
            \A ref \in {Magnitude(View) + Magnitude(ViewAfter)} :
                /\ Near(after[1], before[1], ref, 2)
                /\ Near(after[2], before[2], ref, 2)]_vars

\* A wheel event away from the center of the viewport has zoomed in.
C5_Witness ==
    /\ last.op = "wheel" /\ last.ok /\ last.anchor = ToGlobal(<<0, 0>>)
    /\ zoom > One /\ zoom < F(2)

\* C6: reset_zoom is never refused by the limits and leaves zoom = 1.  (The
\* scene position under the cursor is the anchor of C5.)
C6_ResetZoomRestoresOne ==
    last.op = "reset_zoom" => (last.ok /\ zoom = One)

\* C7: reset_pan puts the center of the scene rectangle on the center of
\* the bounding rectangle of the image and leaves the zoom and the size of
\* the scene rectangle as they were.
C7_ResetPanCenters ==
    [][(last'.op = "reset_pan" /\ steps' # steps)
         => /\ center(sceneRect') = center(get_image_rect)
            /\ zoom' = zoom
            /\ sceneRect'.w = sceneRect.w /\ sceneRect'.h = sceneRect.h]_vars

\* reset_pan on a zoomed view showing a 100 x 50 image: center (50, 25)
C7_Witness ==
    /\ last.op = "reset_pan" /\ item_image = <<100, 50>> /\ zoom # One
    /\ center(sceneRect) = <<F(50), F(25)>>

\* Amounts of the pans tried on every state: pointer moves over zoom
PanAmounts == {<<FDiv(F(d[1]), zoom), FDiv(F(d[2]), zoom)>> : d \in {<<13, -2>>, <<-1, 13>>}}

\* The rectangle after panning by d and then by -d
PanBack(d) ==
    LET there == pan_viewport(View, d[1], d[2])
    IN  pan_viewport(there, -d[1], -d[2]).rect

ZoomAmounts == {OnGrid(RoundSig(Pow2Milli(delta), GridBits - 20)) : delta \in {-120, 120}}

\* Anchor of the zooms tried on every state, away from the viewport center
ZoomAnchor == <<13, 2>>

\* Both steps of zooming by amount and then by 1 / amount pass the limits.
BothInLimits(amount) ==
    InLimits(zoom, amount) /\ InLimits(FMul(zoom, amount), FDiv(One, amount))

\* The view after zooming by amount and then by 1 / amount at ZoomAnchor
ZoomBack(amount) ==
    LET there == zoom_viewport(View, amount, ToGlobal(ZoomAnchor))
    IN  zoom_viewport(there, FDiv(One, amount), ToGlobal(ZoomAnchor))

\* C9 as stated: zooming by amount and then by 1 / amount at the same
\* anchor gives back the zoom and the scene rectangle, when both steps
\* stay within the limits.
C9_ZoomInverse ==
    shown => \A amount \in ZoomAmounts :
                BothInLimits(amount) =>
                    \A b \in {ZoomBack(amount)} :
                        b.zoom = zoom /\ b.rect = sceneRect

\* C9 amended: zooming by amount and then by 1 / amount at the same anchor
\* gives back the zoom within two units in the last place, and the scene
\* rectangle within rounding.
C9_ZoomInverseRounded ==
    shown => \A amount \in ZoomAmounts :
                BothInLimits(amount) =>
                    \A b \in {ZoomBack(amount)} :
                    \A ref \in {Magnitude(View) + Magnitude(b)} :
                        /\ Near(b.zoom, zoom, zoom, 2)
                        /\ Near(b.rect.x, sceneRect.x, ref, 4)
                        /\ Near(b.rect.y, sceneRect.y, ref, 4)
                        /\ Near(b.rect.w, sceneRect.w, ref, 4)
                        /\ Near(b.rect.h, sceneRect.h, ref, 4)

\* A state where zooming by 2 ** 0.12 and back does not give back the zoom
C9_Witness ==
    /\ shown /\ \E amount \in ZoomAmounts :
                    /\ BothInLimits(amount) /\ amount > One
                    /\ ZoomBack(amount).zoom # zoom

----------------------------------------------------------------------------
(* Properties of the viewport *)

\* C10: rotate_image_90 with a multiple of 90 returns the new absolute
\* rotation angle, image loaded or not: the previous angle plus the given
\* one when add_existing is true, the given one otherwise.
C10_RotateReturnsAngle ==
    [][(last'.op = "rotate_image_90" /\ steps' # steps /\ last'.angle % 90 = 0)
         => returned' = Returns(IF last'.add_existing
                                THEN rotation_angle + last'.angle
                                ELSE last'.angle)]_vars

----------------------------------------------------------------------------
(* Properties of the viewport, its plugins and its shortcuts *)

\* C11: rotate_image_90 with an angle that is not a multiple of 90 raises
\* ValueError and leaves the stored angle, the stored array, the image and
\* the plugins as they were; the stored angle is a multiple of 90 in every
\* reachable state.
C11_BadAngleRejected ==
    /\ [](rotation_angle % 90 = 0)
    /\ [][(last'.op = "rotate_image_90" /\ steps' # steps /\ last'.angle % 90 # 0)
            => /\ returned' = Raises("ValueError")
               /\ rotation_angle' = rotation_angle
               /\ image_array' = image_array
               /\ item_image' = item_image
               /\ item_visible' = item_visible
               /\ plugins' = plugins
               /\ picker' = picker
               /\ grid' = grid]_vars

\* an angle of 45 refused while an image is loaded and turned by 90
C11_Witness ==
    /\ last.op = "rotate_image_90"
    /\ last.angle = 45
    /\ returned.kind = "ValueError"
    /\ image_array # None
    /\ rotation_angle = 90

\* C12: the color picker is hidden in a new viewport, and
\* get_color_picked_area returns None exactly when the picker is not
\* visible, else its rectangle normalized, of width and height >= 0.
C12_PickedAreaWhenVisible ==
    /\ steps = 0 => ~picker.visible
    /\ last.op = "get_color_picked_area" =>
           IF picker.visible
           THEN /\ returned.kind = "value"
                /\ returned.value = normalized(picker.scene_rect)
                /\ width(returned.value) >= 0
                /\ height(returned.value) >= 0
           ELSE returned.kind = "None"

\* the area asked for while the picker shows a rectangle dragged to the left
C12_Witness ==
    /\ last.op = "get_color_picked_area"
    /\ picker.visible
    /\ picker.scene_rect.x2 < picker.scene_rect.x1
    /\ returned.kind = "value"

\* The event is a press matching pick or pick_area_start.
PickStart(event) ==
    /\ event.class = "QGraphicsSceneMouseEvent"
    /\ event.type = "GraphicsSceneMousePress"
    /\ \/ match_event(shortcuts.pick, event, "None")
       \/ match_event(shortcuts.pick_area_start, event, "None")

\* The event is a move matching pick_area_expand.
Expand(event) ==
    /\ event.class = "QGraphicsSceneMouseEvent"
    /\ event.type = "GraphicsSceneMouseMove"
    /\ match_event(shortcuts.pick_area_expand, event, "None")

\* The scene position lies within the bounds of the image, edges included.
InsideImage(scenePos) ==
    /\ 0 <= scenePos[1] /\ scenePos[1] <= F(item_image[1])
    /\ 0 <= scenePos[2] /\ scenePos[2] <= F(item_image[2])

\* C13: a press matching pick or pick_area_start inside the image shows the
\* picker and makes its rectangle the 1x1 rectangle at the pixel clicked,
\* the coordinates truncated toward zero; outside the image it changes
\* neither the visibility nor the rectangle.
C13_PickStart ==
    [][(last'.op = "eventFilter" /\ steps' # steps /\ PickStart(last'.event))
         => IF InsideImage(last'.event.scenePos)
            THEN /\ picker'.visible
                 /\ picker'.scene_rect = QRect(int(last'.event.scenePos[1]),
                                               int(last'.event.scenePos[2]), 1, 1)
            ELSE /\ picker'.visible = picker.visible
                 /\ picker'.scene_rect = picker.scene_rect]_vars

\* pixel (5, 5) picked at (5.5, 5.25) in a zoomed view
C13_Witness ==
    /\ last.op = "eventFilter"
    /\ last.event = PickPress(Quarters(22, 21))
    /\ m11 # One
    /\ picker.visible
    /\ picker.scene_rect = QRect(5, 5, 1, 1)

\* The rectangle covers the pixel.
Covers(r, pixel) ==
    /\ r.x1 <= pixel[1] /\ pixel[1] <= r.x2
    /\ r.y1 <= pixel[2] /\ pixel[2] <= r.y2

\* C14: after a pick-start at pixel p, a move matching pick_area_expand at
\* a pixel q inside the image makes get_color_picked_area return a
\* rectangle of width and height >= 0 that covers both p and q, wherever q
\* lies from p.
C14_ExpandCoversBoth ==
    [][(/\ last.op = "eventFilter" /\ PickStart(last.event)
        /\ picker.visible /\ width(picker.scene_rect) = 1 /\ height(picker.scene_rect) = 1
        /\ last'.op = "eventFilter" /\ steps' # steps /\ Expand(last'.event)
        /\ InsideImage(last'.event.scenePos))
         => /\ get_color_picked_area(picker').kind = "value"
            /\ \A area \in {get_color_picked_area(picker').value} :
                   /\ width(area) >= 0 /\ height(area) >= 0
                   /\ Covers(area, <<picker.scene_rect.x1, picker.scene_rect.y1>>)
                   /\ Covers(area, pointf_to_point(last'.event.scenePos))]_vars

\* the areas of two values get_color_picked_area returned are the same
SameArea(a, b) == a.kind = b.kind /\ (a.kind = "value" => a.value = b.value)

\* C15: whenever the rectangle of the color picker or its visibility
\* changes, picked_color_changed is emitted, and a slot that asks for the
\* picked area at that moment gets the new one.
C15_ChangeIsEmitted ==
    [][(picker'.scene_rect # picker.scene_rect \/ picker'.visible # picker.visible)
         => \E i \in DOMAIN log' :
                /\ log'[i].kind = "signal"
                /\ log'[i].name = "picked_color_changed"
                /\ SameArea(log'[i].area, get_color_picked_area(picker'))]_vars

\* an image cleared while the picker was visible: the slot sees no area
C15_Witness ==
    /\ last.op = "clear_image"
    /\ \E i, j \in DOMAIN log :
           /\ i < j
           /\ log[i].kind = "hook" /\ log[i].plugin = plugin_color_picker
           /\ log[i].area.kind = "value"
           /\ log[j].kind = "signal" /\ log[j].name = "picked_color_changed"
           /\ log[j].area.kind = "None"

\* C16: clear_image emits image_cleared_signal once, after the array was
\* dropped, the default image brought back and every plugin given reload()
\* and then on_image_changed(); a slot of the signal sees no array and no
\* picked area.
C16_ClearedAfterAll ==
    [][(last'.op = "clear_image" /\ steps' # steps)
         => \E i \in DOMAIN log' :
                /\ log'[i].kind = "signal" /\ log'[i].name = "image_cleared_signal"
                /\ \A j \in DOMAIN log' :
                       (log'[j].kind = "signal" /\ log'[j].name = "image_cleared_signal")
                           => j = i
                /\ log'[i].image_array = None
                /\ log'[i].item_image = default_image
                /\ log'[i].area.kind = "None"
                /\ \A k \in DOMAIN plugins :
                       \E a, b \in 1 .. (i - 1) :
                           /\ a < b
                           /\ log'[a].kind = "hook" /\ log'[a].name = "reload"
                           /\ log'[a].plugin = plugins[k]
                           /\ log'[b].kind = "hook" /\ log'[b].name = "on_image_changed"
                           /\ log'[b].plugin = plugins[k]]_vars

\* cleared with a plugin of the host added and the picker visible
C16_Witness ==
    /\ last.op = "clear_image"
    /\ Len(plugins) = 3
    /\ \E i \in DOMAIN log :
           /\ log[i].kind = "hook" /\ log[i].plugin = plugin_color_picker
           /\ log[i].area.kind = "value"

\* C17: the list of plugins never holds a plugin twice and keeps the order
\* of first insertion, the coordinates grid, then the color picker, then
\* the plugins of the host; adding a plugin that is there changes nothing,
\* and the view is given each plugin once.
C17_AddPluginIdempotent ==
    /\ [](/\ \A i, j \in DOMAIN plugins : plugins[i] = plugins[j] => i = j
          /\ plugins[1] = plugins_coord
          /\ plugins[2] = plugin_color_picker
          /\ view_plugins = plugins)
    /\ [][/\ Len(plugins) <= Len(plugins')
          /\ \A i \in DOMAIN plugins : plugins'[i] = plugins[i]
          /\ (/\ last'.op = "add_plugin" /\ steps' # steps
              /\ \E i \in DOMAIN plugins : plugins[i] = last'.plugin)
               => /\ plugins' = plugins
                  /\ view_plugins' = view_plugins]_vars

\* the color picker added again after a plugin of the host
C17_Witness ==
    /\ last.op = "add_plugin"
    /\ last.plugin = plugin_color_picker
    /\ plugins = <<plugins_coord, plugin_color_picker, "host_plugin">>

\* The event has the listed modifier active.
Active(event, modifier) == modifier # {} /\ modifier \subseteq event.modifiers

\* The predicate match_event is to compute.
Matches(shortcut, event) ==
    LET listed == {shortcut.modifiers.items[i] : i \in DOMAIN shortcut.modifiers.items}
    IN  /\ event.class \in {"QKeyEvent", "QMouseEvent", "QGraphicsSceneMouseEvent"}
        /\ shortcut.key = (IF event.class = "QKeyEvent" THEN event.key ELSE event.button)
        /\ \/ shortcut.modifiers.is_none
           \/ /\ shortcut.modifier_matching = "exact"
              /\ event.modifiers = UNION listed
           \/ /\ shortcut.modifier_matching = "contains_all"
              /\ \A modifier \in listed : Active(event, modifier)
           \/ /\ shortcut.modifier_matching = "contains_any"
              /\ \E modifier \in listed : Active(event, modifier)

\* C18: match_event is false for an event that is neither a key nor a
\* mouse event or whose key or button is not the shortcut's; else it is
\* true when the shortcut's modifiers are None, and else true exactly when
\* the modifiers of the event are the union of those listed (exact),
\* include each of them (contains_all) or one of them (contains_any).
C18_MatchEvent ==
    last.op = "match_event" => returned.value = Matches(last.shortcut, last.event)

\* modifiers = () under exact matched by an event without modifiers
C18_Witness ==
    /\ last.op = "match_event"
    /\ last.shortcut = LIVKeyShortcut("LeftButton", Modifiers(<<>>), "exact")
    /\ last.event.button = "LeftButton"
    /\ last.event.modifiers = {}
    /\ returned.value = TRUE

\* C19: get_event_matching_shortcut returns the first shortcut, in the
\* order of the fields, that matches the event, and None exactly when no
\* shortcut of the table matches; what it returns matches the event.
C19_FirstMatch ==
    last.op = "get_event_matching_shortcut" =>
        LET hits == {i \in DOMAIN fields :
                         match_event(last.table[fields[i]], last.event, "None")}
        IN  IF hits = {} THEN returned.kind = "None"
            ELSE /\ returned.kind = "value"
                 /\ match_event(returned.value, last.event, "None")
                 /\ \E i \in hits :
                        /\ \A j \in hits : i <= j
                        /\ returned.value = last.table[fields[i]]

\* the middle button with Alt and Shift: zoom2 comes before
\* set_coordinates_tiles
C19_Witness ==
    /\ last.op = "get_event_matching_shortcut"
    /\ last.table = get_default
    /\ last.event.button = "MiddleButton"
    /\ last.event.modifiers = {"Alt", "Shift"}
    /\ returned.kind = "value"
    /\ returned.value = get_default.zoom2

\* C20: when set_image_from_array raises, the image shown, the stored
\* array, the angle, the visibility of the item, the view and the plugins
\* are as before, and no plugin was told and no signal emitted.
C20_FailedLoadNotApplied ==
    [][(last'.op = "set_image" /\ steps' # steps /\ returned'.kind \notin {"None", "value"})
         => /\ item_image' = item_image
            /\ image_array' = image_array
            /\ rotation_angle' = rotation_angle
            /\ item_visible' = item_visible
            /\ sceneRect' = sceneRect
            /\ picker' = picker
            /\ grid' = grid
            /\ log' = <<>>]_vars

\* an int32 array refused while an image is shown and a pixel picked
C20_Witness ==
    /\ last.op = "set_image"
    /\ last.array.dtype = "int32"
    /\ returned.kind = "TypeError"
    /\ image_array # None
    /\ picker.visible

\* C21: after every set_image_from_array that raises nothing, whatever the
\* shape of the array (two dimensions, or three with one, two, three, four
\* or more channels) and its supported dtype, the array given to the image
\* item has four channels of uint16.
C21_FourChannels ==
    (last.op = "set_image" /\ returned.kind = "None")
        => /\ Len(image_array.shape) = 3
           /\ image_array.shape[3] = 4
           /\ image_array.dtype = "uint16"

\* C22: in every reachable state the bounding rectangle of the image item
\* has its top-left corner at (0, 0) and is as wide and high as the array
\* set last has columns and rows, or as the default image when no array is
\* set.
C22_BoundingRect ==
    /\ get_image_rect.x = 0 /\ get_image_rect.y = 0
    /\ get_image_rect.w = F(IF image_array = None THEN default_image[1]
                            ELSE image_array.shape[2])
    /\ get_image_rect.h = F(IF image_array = None THEN default_image[2]
                            ELSE image_array.shape[1])

\* an array of 50 rows and 100 columns turned by 90 degrees: 50 wide, 100
\* high
C22_Witness ==
    /\ last.op = "rotate_image_90"
    /\ image_array # None
    /\ image_array.turns = 1
    /\ get_image_rect.w = F(50) /\ get_image_rect.h = F(100)

\* The handler run last changed the navigation: a resize, a reset of the
\* pan, an accepted zoom, or a move that pans.
NavigationChanged(panning) ==
    \/ last.op \in {"resize", "reset_pan"}
    \/ last.op \in {"wheel", "reset_zoom"} /\ last.ok
    \/ last.op = "move" /\ (panning \/ last.ok)

C23_MalformedResize ==
    [][(/\ last'.op = "resize" /\ steps' # steps
        /\ (viewportSize'[1] <= 0 \/ viewportSize'[2] <= 0))
         => /\ zoom # 0
            /\ zoom' = zoom
            /\ sceneRect'.x = sceneRect.x
            /\ sceneRect'.y = sceneRect.y]_vars

\* a zoomed and panned view resized to no size at all
C23_Witness ==
    /\ last.op = "resize"
    /\ viewportSize = <<0, 0>>
    /\ zoom # One
    /\ sceneRect.w < 0
    /\ mouse_previous_pos # None

\* The handler run last was a press matching pan1, pan2 or zoom2.
GesturePress == last.op = "press" /\ last.binding \in {"pan", "zoom"}

C28_ReleaseClearsOwnFlag ==
    [][/\ (last'.op = "press" /\ steps' # steps /\ last'.binding = "pan")
            => state' = state \cup {panState}
       /\ (last'.op = "press" /\ steps' # steps /\ last'.binding = "zoom")
            => state' = state \cup {zoomState}
       /\ (/\ last'.op = "release" /\ steps' # steps
           /\ last'.binding = "pan" /\ panState \in state)
            => state' = state \ {panState}
       /\ (/\ last'.op = "release" /\ steps' # steps
           /\ last'.binding = "zoom" /\ zoomState \in state)
            => state' = state \ {zoomState}]_vars

\* C29 as stated: a move from the position p of the previous move to q
\* while only panState is set moves the scene rectangle by (p - q) / zoom
\* on each axis and leaves the zoom as it was and the size of the
\* rectangle as it was (up to the rounding of QRectF.adjusted).
C29_PanByDelta ==
    [][(/\ last'.op = "move" /\ steps' # steps
        /\ state = {noneState, panState}
        /\ mouse_previous_pos # None)
         => \A p \in {mouse_previous_pos} : \A q \in {mouse_previous_pos'} :
            \A ref \in {Magnitude(View) + Magnitude(ViewAfter)} :
                /\ zoom' = zoom
                /\ sceneRect'.x = FAdd(sceneRect.x, FDiv(F(p[1] - q[1]), zoom))
                /\ sceneRect'.y = FAdd(sceneRect.y, FDiv(F(p[2] - q[2]), zoom))
                /\ Near(sceneRect'.w, sceneRect.w, ref, 2)
                /\ Near(sceneRect'.h, sceneRect.h, ref, 2)]_vars

\* C30 as stated: while zoomState stays set the position recorded by the
\* press that set it does not change, whatever the event handled, every
\* move calls _zoom_viewport with that position as its anchor, and, when
\* only zoomState is set, with an amount of 1 + delta * 0.01, delta being
\* the horizontal distance from the previous move, or the vertical one
\* when the horizontal one is 0.
C30_AnchorOfThePress ==
    [][(zoomState \in state /\ zoomState \in state' /\ mouse_initial_pos # None)
         => /\ mouse_initial_pos' = mouse_initial_pos
            /\ (last'.op = "move" /\ steps' # steps)
                 => last'.anchor = mouse_initial_pos
            /\ (/\ last'.op = "move" /\ steps' # steps
                /\ state = {noneState, zoomState}
                /\ Truthy(mouse_previous_pos))
                 => \A p \in {mouse_previous_pos} : \A q \in {mouse_previous_pos'} :
                        last'.amount
                            = FAdd(One, FMul(IF p[1] # q[1] THEN F(p[1] - q[1])
                                             ELSE F(p[2] - q[2]), Cent))]_vars

\* The largest magnitude met when the rectangle r goes through the
\* transform t and back: the coordinates of r, of r mapped to the screen
\* space and of r mapped from it, and the translations of t and of its
\* inverse.
RoundTripMagnitude(t, r) ==
    LET coordinates(q) == {Abs(q.x), Abs(q.y), q.w, q.h}
    IN  Largest(coordinates(r)
                    \cup coordinates(map_rect_to_screenspace(t, r))
                    \cup coordinates(QTransform_mapRect(inverted(t), r))
                    \cup {Abs(t.dx), Abs(t.dy), Abs(inverted(t).dx),
                          Abs(inverted(t).dy)})

IsHook(entry) == entry.kind = "hook"

\* C26: a set_image_from_array that returns, a rotate_image_90 of an array
\* and a clear_image call, for each plugin of the viewport in the order the
\* plugins were added, reload() and then on_image_changed(), and nothing
\* else of the plugins; at each of these calls the viewport and the image
\* item hold the new array and its image, or no array and the default
\* image.
C26_ReloadThenImageChanged ==
    (\/ last.op \in {"set_image", "clear_image"} /\ returned.kind = "None"
     \/ last.op = "rotate_image_90" /\ returned.kind = "value")
        => \A hooks \in {SelectSeq(log, IsHook)} :
               /\ Len(hooks) = 2 * Len(plugins)
               /\ \A i \in DOMAIN plugins :
                      /\ hooks[2 * i - 1].name = "reload"
                      /\ hooks[2 * i - 1].plugin = plugins[i]
                      /\ hooks[2 * i].name = "on_image_changed"
                      /\ hooks[2 * i].plugin = plugins[i]
               /\ \A j \in DOMAIN hooks :
                      /\ hooks[j].image_array = image_array
                      /\ hooks[j].item_image = item_image

\* an array of uint8 was set with a plugin of the host added: six calls,
\* the first with the converted array already there
C26_Witness ==
    /\ last.op = "set_image" /\ returned.kind = "None"
    /\ Len(plugins) = 3
    /\ last.array.dtype = "uint8"
    /\ Len(SelectSeq(log, IsHook)) = 6
    /\ log[1].name = "reload"
    /\ log[1].image_array = image_array
    /\ log[1].image_array.dtype = "uint16"

\* C31 as stated: a wheel event, in every state of the view, leaves the
\* state and the positions of the gesture as they were and asks for a zoom
\* around the position of the pointer; a positive delta does not lower the
\* zoom, a negative one does not raise it, and a delta of 0 leaves the zoom
\* and the scene rectangle as they were.
C31_WheelZooms ==
    [][(last'.op = "wheel" /\ steps' # steps)
         => /\ state' = state
            /\ mouse_previous_pos' = mouse_previous_pos
            /\ mouse_initial_pos' = mouse_initial_pos
            /\ last'.anchor = ToGlobal(last'.pos)
            /\ last'.delta > 0 => zoom' >= zoom
            /\ last'.delta < 0 => zoom' <= zoom
            /\ last'.delta = 0 => (zoom' = zoom /\ sceneRect' = sceneRect)]_vars

\* C31 amended: as C31, but a delta of 0 leaves the scene rectangle where
\* it was up to rounding only: _zoom_viewport with an amount of 1 sets the
\* size anew and pans by the rounding of the mapping of its anchor.
C31_WheelZoomsRounded ==
    [][(last'.op = "wheel" /\ steps' # steps)
         => /\ state' = state
            /\ mouse_previous_pos' = mouse_previous_pos
            /\ mouse_initial_pos' = mouse_initial_pos
            /\ last'.anchor = ToGlobal(last'.pos)
            /\ last'.delta > 0 => zoom' >= zoom
            /\ last'.delta < 0 => zoom' <= zoom
            /\ last'.delta = 0
                 => /\ zoom' = zoom
                    /\ \A ref \in {Magnitude(View) + Magnitude(ViewAfter)} :
                           /\ Near(sceneRect'.x, sceneRect.x, ref, 2)
                           /\ Near(sceneRect'.y, sceneRect.y, ref, 2)
                           /\ Near(sceneRect'.w, sceneRect.w, ref, 2)
                           /\ Near(sceneRect'.h, sceneRect.h, ref, 2)]_vars

\* a notch of the wheel has zoomed out while the view was panning and
\* zooming with the mouse, away from the position of the press
C31_Witness ==
    /\ last.op = "wheel" /\ last.ok /\ last.delta = -120
    /\ state = {noneState, panState, zoomState}
    /\ mouse_initial_pos # None
    /\ mouse_initial_pos # last.anchor

\* C32: after a release of a button of the mouse, whatever came before,
\* the state is noneState and the previous and initial positions are None;
\* a move handled in noneState leaves the zoom, the scene rectangle and
\* the two positions as they were.
C32_ReleaseResetsAll ==
    [][/\ (last'.op = "release" /\ steps' # steps)
            => /\ state' = {noneState}
               /\ mouse_previous_pos' = None
               /\ mouse_initial_pos' = None
       /\ (last'.op = "move" /\ steps' # steps /\ state = {noneState})
            => /\ zoom' = zoom
               /\ sceneRect' = sceneRect
               /\ mouse_previous_pos' = mouse_previous_pos
               /\ mouse_initial_pos' = mouse_initial_pos]_vars

\* a move in noneState, after presses and a release: the press had
\* recorded a position, the release dropped it and the move recorded none
C32_Witness ==
    /\ last.op = "move"
    /\ steps = 4
    /\ state = {noneState}
    /\ mouse_previous_pos = None
    /\ mouse_initial_pos = None

\* C33 as stated: whatever the key or the button of an event and the
\* modifiers held, at most one shortcut of the default table matches it.
C33_DefaultsDoNotCollide ==
    (last.op = "get_event_matching_shortcut" /\ last.table = get_default)
        => \A i, j \in DOMAIN fields :
               (/\ match_event(get_default[fields[i]], last.event, "None")
                /\ match_event(get_default[fields[j]], last.event, "None"))
                   => i = j

\* C34: the coordinates grid is hidden at first and visible only while
\* Shift and Alt are held; the press of Shift or Alt that leaves the two of
\* them held, and no other modifier, shows it, and the release of Shift or
\* of Alt hides it, in whatever order the keys are pressed and released.
C34_GridWhileChordHeld ==
    /\ [](steps = 0 => ~grid.visible)
    /\ [](grid.visible => {"Shift", "Alt"} \subseteq last.modifiers)
    /\ [][(/\ last'.op = "key_press" /\ steps' # steps
            /\ last'.key \in {"Shift", "Alt"}
            /\ last'.modifiers = {"Shift", "Alt"}) => grid'.visible]_vars
    /\ [][(/\ last'.op = "key_release" /\ steps' # steps
            /\ last'.key \in {"Shift", "Alt"}) => ~grid'.visible]_vars

\* Alt then Shift were pressed, which showed the grid, and Alt was released
\* first, which hid it
C34_Witness ==
    /\ last.op = "key_release" /\ last.key = "Alt"
    /\ last.modifiers = {"Shift"}
    /\ steps = 3
    /\ ~grid.visible

\* The zoom lies in the range of the style, bounds included; a bound that
\* is absent does not limit it and an absent zoom is in every range.
InZoomRange(style, zoom_) ==
    \/ zoom_ = None
    \/ /\ \/ style.texture_zoom_range[1] = None
          \/ style.texture_zoom_range[1][1] <= zoom_[1]
       /\ \/ style.texture_zoom_range[2] = None
          \/ zoom_[1] <= style.texture_zoom_range[2][1]

\* C35 as stated: should_draw_texture(style, zoom) is true exactly when the
\* style enables textures and the zoom lies in the style's range, bounds
\* included, an absent bound unbounded and an absent zoom unchecked; and the
\* view paints its background with the texture at exactly the zooms at
\* which the predicate is true.
C35_TextureWhenInRange ==
    /\ last.op = "should_use_background_texture"
           => returned.value = (/\ last.style.use_background_texture
                                /\ InZoomRange(last.style, last.zoom))
    /\ last.op = "drawBackground"
           => returned.value = should_use_background_texture(last.style, last.zoom)

\* The predicate on its own is as stated.
C35_PredicateOnly ==
    last.op = "should_use_background_texture"
        => returned.value = (/\ last.style.use_background_texture
                             /\ InZoomRange(last.style, last.zoom))

\* The styles of the library, and the style reached from style by k
\* applications of next
LibraryStyles(customs) == {all(customs)[i] : i \in DOMAIN all(customs)}

RECURSIVE NextTimes(_, _, _)
NextTimes(customs, style, k) ==
    IF k = 0 THEN style ELSE NextTimes(customs, next(customs, style), k - 1)

\* C36 as stated: the library is the built-in styles followed by the
\* custom ones, add_custom_style leaving out a style already added; the
\* next of its last style is its first, and from any of its n styles,
\* applying next again and again visits every style exactly once and is
\* back at the start after exactly n steps.  The style of the view is one
\* of them.
C36_NextCycles ==
    (last.op \in {"init", "add_custom_style", "change_background"}
     /\ "customs" \in DOMAIN last)
        => LET customs == last.customs
               n == Cardinality(LibraryStyles(customs))
           IN  /\ SubSeq(all(customs), 1, 6) = built_in_styles
               /\ \A i, j \in DOMAIN customs : customs[i] = customs[j] => i = j
               /\ last.style \in LibraryStyles(customs)
               /\ \A style \in LibraryStyles(customs) :
                      /\ NextTimes(customs, style, n) = style
                      /\ {NextTimes(customs, style, k) : k \in 0..(n - 1)}
                             = LibraryStyles(customs)
                      /\ \A k \in 1..(n - 1) : NextTimes(customs, style, k) # style
               /\ \A style \in LibraryStyles(customs) :
                      (\A other \in LibraryStyles(customs) :
                           index(all(customs), other) <= index(all(customs), style))
                          => next(customs, style) = all(customs)[1]

\* C37 as stated: a rectangle returned by get_picked_region lies within the
\* pixels of the current image, whatever pick-starts, expands, drags of the
\* center, unpicks, set_image and clear_image came before: 0 <= left,
\* 0 <= top, left + width <= image width and top + height <= image height.
C37_PickedRegionInImage ==
    (last.op = "get_color_picked_area" /\ returned.kind = "value")
        => /\ 0 <= returned.value.x1
           /\ 0 <= returned.value.y1
           /\ returned.value.x1 + width(returned.value) <= item_image[1]
           /\ returned.value.y1 + height(returned.value) <= item_image[2]

\* C38: the color picker is hidden after every set_image and clear_image,
\* and get_picked_region returns none while it is hidden; it is shown again
\* only by a pick-start inside the image, which makes its rectangle the
\* pixel of that press, so that a region picked on the previous image is
\* never reported against the new one.
C38_HiddenAfterImageChange ==
    /\ [][(/\ steps' # steps
           /\ last'.op \in {"set_image", "clear_image"}
           /\ returned'.kind = "None") => ~picker'.visible]_vars
    /\ [][(~picker.visible /\ picker'.visible)
            => /\ last'.op = "eventFilter"
               /\ PickStart(last'.event)
               /\ InsideImage(last'.event.scenePos)
               /\ item_image' = item_image
               /\ picker'.scene_rect = QRect(int(last'.event.scenePos[1]),
                                             int(last'.event.scenePos[2]), 1, 1)]_vars
    /\ []((last.op = "get_color_picked_area" /\ ~picker.visible)
              => returned.kind = "None")

\* Pixel (5, 5) was picked, then an image set: the picker is hidden, its
\* rectangle still the one of the old pick.
C38_Witness ==
    /\ last.op = "set_image"
    /\ returned.kind = "None"
    /\ picker.scene_rect = QRect(5, 5, 1, 1)
    /\ ~picker.visible

\* C39 as stated: after set_image(A), whatever valid rotate_90 calls
\* follow, additive or not, the buffer displayed is A rotated by the change
\* of the stored angle since set_image, modulo 360: each call turns the
\* buffer by as many quarter turns as it changes the stored angle by.
C39_BufferFollowsAngle ==
    [][(/\ steps' # steps
        /\ last'.op = "rotate_image_90"
        /\ returned'.kind = "value")
         => (image_array'.turns - image_array.turns) % 4
                = ((rotation_angle' - rotation_angle) \div 90) % 4]_vars

\* C40 as stated: whatever events of the wheel the coordinates grid is
\* given, its number of tiles stays >= 1, so that generating the grid never
\* divides by zero and yields at least two points.
C40_TilesAtLeastOne ==
    /\ grid.tiles_number >= 1
    /\ last.op = "grid_paint"
           => returned.kind = "value" /\ Len(returned.value) >= 2

====
